---- MODULE Spec2Model ----
(***************************************************************************)
(* ClimaSphere: the weather card's acquisition, merge and comfort-risk     *)
(* pipeline (frontend/src/components/WeatherForecastCard.jsx).             *)
(*                                                                         *)
(* JavaScript numbers are carried as fixed-point integers in thousandths   *)
(* (Unit = 1000 stands for 1.0).  Magnitudes beyond Lim are carried as     *)
(* +Infinity / -Infinity, NaN and null/undefined are distinguished codes   *)
(* outside the finite range.  The transcendental functions are evaluated   *)
(* by range reduction and Taylor series to about +/- 0.003.                *)
(***************************************************************************)
EXTENDS Integers, Sequences, FiniteSets, TLC

Unit == 10 * 100
Lim == 100000 * Unit
PInf == Lim + 1
NInf == 0 - PInf
NaN == Lim + 2
Null == Lim + 3

N(u) == u * Unit

IsFinite(x) == x >= 0 - Lim /\ x <= Lim
IsInf(x) == x = PInf \/ x = NInf
Abs(x) == IF x < 0 THEN 0 - x ELSE x
Sgn(x) == IF x < 0 THEN 0 - 1 ELSE IF x > 0 THEN 1 ELSE 0
Sat(x) == IF x > Lim THEN PInf ELSE IF x < 0 - Lim THEN NInf ELSE x
SignedInf(s) == IF s < 0 THEN NInf ELSE PInf

(* unary minus *)
Neg(a) == IF a = NaN THEN NaN ELSE 0 - a

(* a + b *)
Add(a, b) ==
  IF a = NaN \/ b = NaN THEN NaN
  ELSE IF IsInf(a) /\ IsInf(b) THEN (IF a = b THEN a ELSE NaN)
  ELSE IF IsInf(a) THEN a
  ELSE IF IsInf(b) THEN b
  ELSE Sat(a + b)

(* a - b *)
Sub(a, b) == Add(a, Neg(b))

(* a * b, by long multiplication on the thousands and the remainders *)
MulFinite(a, b) ==
  LET ah == Abs(a) \div Unit
      al == Abs(a) % Unit
      bh == Abs(b) \div Unit
      bl == Abs(b) % Unit
      s  == Sgn(a) * Sgn(b)
  IN IF bh > 0 /\ ah > (Lim \div Unit) \div bh
       THEN SignedInf(s)
       ELSE Sat(s * (ah * bh * Unit + ah * bl + al * bh + (al * bl + (Unit \div 2)) \div Unit))

Mul(a, b) ==
  IF a = NaN \/ b = NaN THEN NaN
  ELSE IF IsInf(a) \/ IsInf(b)
    THEN (IF a = 0 \/ b = 0 THEN NaN ELSE SignedInf(Sgn(a) * Sgn(b)))
  ELSE MulFinite(a, b)

(* a / b *)
DivFinite(a, b) ==
  LET n == Abs(a)
      d == Abs(b)
      q == n \div d
      r == n % d
      s == Sgn(a) * Sgn(b)
      frac == IF d <= 2000 * Unit THEN (r * Unit + d \div 2) \div d
              ELSE r \div (d \div Unit)
  IN IF q > Lim \div Unit THEN SignedInf(s) ELSE Sat(s * (q * Unit + frac))

Div(a, b) ==
  IF a = NaN \/ b = NaN THEN NaN
  ELSE IF IsInf(a) THEN (IF IsInf(b) THEN NaN ELSE SignedInf(Sgn(a) * (IF b < 0 THEN 0 - 1 ELSE 1)))
  ELSE IF IsInf(b) THEN 0
  ELSE IF b = 0 THEN (IF a = 0 THEN NaN ELSE SignedInf(Sgn(a)))
  ELSE DivFinite(a, b)

(* comparisons: every comparison with NaN is false *)
Gt(a, b) == a # NaN /\ b # NaN /\ a > b
Le(a, b) == a # NaN /\ b # NaN /\ a <= b
Lt(a, b) == a # NaN /\ b # NaN /\ a < b
Ge(a, b) == a # NaN /\ b # NaN /\ a >= b

(* Math.max, Math.min *)
MathMax(a, b) == IF a = NaN \/ b = NaN THEN NaN ELSE IF a >= b THEN a ELSE b
MathMin(a, b) == IF a = NaN \/ b = NaN THEN NaN ELSE IF a <= b THEN a ELSE b

(* Math.round: floor(x + 0.5) *)
MathRound(x) ==
  IF x = NaN \/ IsInf(x) THEN x ELSE ((x + Unit \div 2) \div Unit) * Unit

(* e^k for k = 0..11, in thousandths *)
ExpInt == <<1000, 2718, 7389, 20086, 54598, 148413, 403429, 1096633,
            2980958, 8103084, 22026466, 59874142>>

(* e^f for 0 <= f < 1 by Taylor series *)
ExpFrac(f) ==
  LET t2 == (f * f + 1000) \div 2000
      t3 == (t2 * f + 1500) \div 3000
      t4 == (t3 * f + 2000) \div 4000
      t5 == (t4 * f + 2500) \div 5000
      t6 == (t5 * f + 3000) \div 6000
  IN Unit + f + t2 + t3 + t4 + t5 + t6

ExpPos(z) ==
  IF z \div Unit >= Len(ExpInt) THEN PInf
  ELSE MulFinite(ExpInt[(z \div Unit) + 1], ExpFrac(z % Unit))

(* Math.exp *)
MathExp(z) ==
  IF z = NaN THEN NaN
  ELSE IF z = PInf THEN PInf
  ELSE IF z = NInf THEN 0
  ELSE IF z >= 0 THEN ExpPos(z)
  ELSE Div(Unit, ExpPos(0 - z))

RECURSIVE LnReduce(_, _)
LnReduce(m, k) ==
  IF m >= 2 * Unit THEN LnReduce(m \div 2, k + 1)
  ELSE IF m < Unit THEN LnReduce(m * 2, k - 1)
  ELSE <<m, k>>

(* Math.log: ln m = 2 atanh((m-1)/(m+1)) on [1,2), plus k ln 2 *)
MathLog(x) ==
  IF x = NaN \/ x < 0 THEN NaN
  ELSE IF x = 0 THEN NInf
  ELSE IF x = PInf THEN PInf
  ELSE LET mk == LnReduce(x, 0)
           m  == mk[1]
           u  == ((m - Unit) * Unit) \div (m + Unit)
           u2 == (u * u) \div Unit
           u3 == (u * u2) \div Unit
           u5 == (u3 * u2) \div Unit
           u7 == (u5 * u2) \div Unit
       IN 2 * (u + u3 \div 3 + u5 \div 5 + u7 \div 7) + (mk[2] * 693147) \div Unit

(* Math.pow(x, y) for x > 0 *)
MathPow(x, y) ==
  IF x = NaN \/ y = NaN THEN NaN ELSE MathExp(Mul(y, MathLog(x)))

(* Math.sin: reduction modulo 2 pi, then Taylor series on [-pi/2, pi/2] *)
SinTaylor(y) ==
  LET y2 == (y * y) \div Unit
      y3 == (y * y2) \div Unit
      y5 == (y3 * y2) \div Unit
      y7 == (y5 * y2) \div Unit
      y9 == (y7 * y2) \div Unit
  IN y - y3 \div 6 + y5 \div 120 - y7 \div 5040 + y9 \div 362880

MathSin(x) ==
  IF x = NaN \/ IsInf(x) THEN NaN
  ELSE LET twoPi == 6283185
           pi    == 3142
           r     == ((x * Unit) % twoPi) \div Unit
           y     == IF r > pi THEN r - 6283 ELSE r
           z     == IF y > pi \div 2 THEN pi - y
                    ELSE IF y < 0 - (pi \div 2) THEN 0 - pi - y ELSE y
       IN SinTaylor(z)

MathCos(x) == IF x = NaN \/ IsInf(x) THEN NaN ELSE MathSin(x + 1571)


(***************************************************************************)
(* Program constants and sanitizer                                         *)
(***************************************************************************)

(* AU_CITIES[0]: Sydney, the only selectable city *)
AU_CITIES == <<[name |-> "Sydney", lat |-> 0 - 33869, lon |-> 151209]>>

(* a sanitizer that knows only the -999 sentinel *)
isInvalidPowerValueOnly999(v) == v = N(0 - 999)

(* const isInvalidPowerValue = (v) => v === -999 || v === -5994 *)
isInvalidPowerValue(v) == v = N(0 - 999) \/ v = N(0 - 5994)

(* Math.random() returns a value in [0, 1) *)
RandomValues == {0, 500, 999}

HoursPerDay == 24

(* one hourly entry of a POWER payload: the values stored under one time key *)
HourlyEntry(h, t, rh, w, uv, p) ==
  [hour |-> h, T2M |-> t, RH2M |-> rh, WS10M |-> w,
   ALLSKY_SFC_UV_INDEX |-> uv, PRECTOTCORR |-> p]

(* generateMockPowerData: rw and rp are the Math.random() draws per hour *)
generateMockPowerData(startDate, lat, lon, rw, rp) ==
  [hour \in 1..HoursPerDay |->
     LET h == hour - 1 IN
     HourlyEntry(h,
       Add(Add(N(20), Mul(MathSin(Mul(N(h), 300)), N(8))), Mul(lat, 100)),
       Add(Add(N(50), Mul(MathCos(Mul(N(h), 200)), N(20))), Mul(lon, 100)),
       Add(N(3), Mul(rw[h], N(5))),
       MathMax(0, Mul(MathSin(Mul(N(h), 200)), N(6))),
       Mul(rp[h], N(2)))]

(* generateMockPowerDailyData: ruv and rp are the two Math.random() draws *)
generateMockPowerDailyData(startDate, lat, lon, ruv, rp) ==
  [shaped |-> TRUE,
   T2M_MAX |-> Add(N(25), Mul(MathSin(Mul(lat, 100)), N(5))),
   T2M_MIN |-> Add(N(15), Mul(MathCos(Mul(lon, 100)), N(3))),
   RH2M |-> Add(N(60), Mul(MathSin(Mul(Mul(lat, lon), 10)), N(20))),
   ALLSKY_SFC_UV_INDEX |-> Add(N(4), Mul(ruv, N(4))),
   PRECTOTCORR |-> Mul(rp, N(10))]

(***************************************************************************)
(* Comfort risk                                                            *)
(***************************************************************************)

(* const clamp = (v, min, max) => Math.max(min, Math.min(max, v)) *)
clamp(v, min, max) == MathMax(min, MathMin(max, v))

(* 100/(1+Math.exp(-(m-threshold)/scale)) *)
Logistic(m, threshold, scale) ==
  Div(N(100), Add(Unit, MathExp(Neg(Div(Sub(m, threshold), scale)))))

RECURSIVE SumSeq(_)
SumSeq(s) == IF s = <<>> THEN 0 ELSE Add(SumSeq(Tail(s)), Head(s))

NotNull(v) == v # Null

(* the column of one parameter of an hourly payload, as times.map(...) reads it *)
Column(ph, f(_)) == [k \in 1..Len(ph) |-> f(ph[k])]

(* 1/t in units of 1e-9, t in thousandths *)
Recip9(t) ==
  LET d == Abs(t)
      q == 1000000000 \div d
      r == 1000000000 % d
  IN Sgn(t) * (IF q > 2000000 THEN 2000000000
               ELSE q * Unit + (IF d <= 2000000 THEN (r * Unit) \div d ELSE 0))

(* 6.11*Math.exp(5417.7530*((1/273.16) - (1/(273.15 + dew)))) *)
VapourPressure(dew) ==
  IF dew = NaN THEN NaN
  ELSE LET t == Add(273150, dew)
           x == IF IsInf(t) THEN 3660858
                ELSE IF t = 0 THEN NInf
                ELSE 3660858 - Recip9(t)
           arg == IF x = NInf THEN NInf
                  ELSE IF x > 20000000 THEN PInf
                  ELSE IF x < 0 - 20000000 THEN NInf
                  ELSE ((x \div 100) * 5418) \div 10000
       IN Mul(6110, MathExp(arg))

humidex(tmean, rh) ==
  IF tmean = Null \/ rh = Null THEN Null
  ELSE LET a == 17270
           b == 237700
           alpha == Add(Div(Mul(a, tmean), Add(b, tmean)), MathLog(Div(rh, N(100))))
           dew == Div(Mul(b, alpha), Sub(a, alpha))
           e == VapourPressure(dew)
       IN Add(tmean, Mul(Div(N(5), N(9)), Sub(e, N(10))))

windChill(tmean, windMs) ==
  IF tmean = Null THEN Null
  ELSE LET windKmh == Mul(windMs, 3600)
           pw == MathPow(windKmh, 160)
       IN IF Gt(tmean, N(10)) \/ Le(windKmh, 4800) THEN tmean
          ELSE Add(Sub(Add(13120, Mul(622, tmean)), Mul(11370, pw)),
                   Mul(Mul(397, tmean), pw))

(* { center: Math.round(c), low: Math.round(clamp(c-10)), high: Math.round(clamp(c+10)) } *)
RiskBand(c) ==
  [center |-> MathRound(c),
   low |-> MathRound(clamp(Sub(c, N(10)), 0, N(100))),
   high |-> MathRound(clamp(Add(c, N(10)), 0, N(100)))]

heatCenter(hx) == IF hx = Null THEN 0 ELSE Logistic(hx, N(35), 2500)

(* const coldMetric = wc == null ? 20 : (5 - wc) *)
coldMetric(wc) == IF wc = Null THEN N(20) ELSE Sub(N(5), wc)

coldCenter(wc) == Logistic(coldMetric(wc), 0, 2500)

(* the wind mapping with a scale of 2 *)
windCenterScaleTwo(windMs) == Logistic(windMs, N(10), N(2))

windCenter(windMs) == Logistic(windMs, N(10), 1500)

(* the wet mapping with a threshold of 1 mm *)
wetCenterThresholdOne(prec) == IF prec = Null THEN 0 ELSE Logistic(prec, N(1), N(2))

wetCenter(prec) == IF prec = Null THEN 0 ELSE Logistic(prec, N(2), N(2))

(* riskBandLabel: p <= 30 ? "Green" : p <= 60 ? "Yellow" : "Red" *)
riskBandLabel(p) ==
  IF Le(p, N(30)) THEN "Green" ELSE IF Le(p, N(60)) THEN "Yellow" ELSE "Red"

(* daily mean temperature: hourly mean, else (tmax+tmin)/2, else null *)
MeanTemp(pd, ph) ==
  LET temps == SelectSeq(Column(ph, LAMBDA e : e.T2M), NotNull)
  IN IF Len(temps) > 0 THEN Div(SumSeq(temps), N(Len(temps)))
     ELSE IF pd.T2M_MAX # Null /\ pd.T2M_MIN # Null
       THEN Div(Add(pd.T2M_MAX, pd.T2M_MIN), N(2))
     ELSE Null

(* mean hourly wind, else the 3.5 m/s fallback *)
MeanWind(ph) ==
  LET winds == SelectSeq(Column(ph, LAMBDA e : e.WS10M), NotNull)
  IN IF Len(winds) > 0 THEN Div(SumSeq(winds), N(Len(winds))) ELSE 3500

(* computeLocalRiskFallback, after its two fetches returned pd and ph *)
computeLocalRiskFallback(isoDate, pd, ph) ==
  LET tmean == MeanTemp(pd, ph)
      windMs == MeanWind(ph)
  IN [kind |-> "result",
      meta |-> [source |-> "POWER fallback", lat |-> AU_CITIES[1].lat,
                lon |-> AU_CITIES[1].lon, date |-> isoDate],
      indices |-> [heat |-> RiskBand(heatCenter(humidex(tmean, pd.RH2M))),
                   cold |-> RiskBand(coldCenter(windChill(tmean, windMs))),
                   wind |-> RiskBand(windCenter(windMs)),
                   wet |-> RiskBand(wetCenter(pd.PRECTOTCORR))]]


(***************************************************************************)
(* Dates and times.  A date is its distance in days from today, EmptyDate  *)
(* is the empty string of a cleared date field; a time is a whole hour.    *)
(* Instants are counted in hours since today 00:00.                        *)
(***************************************************************************)
EmptyDate == 0 - 1000

(* new Date(`${dateISO}T${timeHHMM}:00`): Invalid Date when unparseable *)
TargetOf(d, t) == IF d = EmptyDate THEN NaN ELSE d * HoursPerDay + t

(* the instant of a POWER time key YYYYMMDDHH of the requested day *)
KeyInstant(d, h) == IF d = EmptyDate THEN NaN ELSE d * HoursPerDay + h

(***************************************************************************)
(* fetchWeather: OpenWeather current, else first POWER hour                *)
(***************************************************************************)

(* the value of one field as the adapters sanitize it:                     *)
(* isInvalidPowerValue(raw) ? null : (raw ?? null)                         *)
Sanitize(raw) == IF isInvalidPowerValue(raw) THEN Null ELSE raw

(* fetchOpenWeather's mapping of a 2xx JSON body *)
MapOpenWeather(j) ==
  [temperature_c |-> j.temp, humidity_pct |-> j.humidity, wind_ms |-> j.speed]

(* fetchWeather's catch branch, given what fetchPowerHourly returned *)
FetchWeatherFromPower(ph) ==
  IF Len(ph) = 0
    THEN [temperature_c |-> Null, humidity_pct |-> Null, wind_ms |-> Null]
    ELSE [temperature_c |-> Sanitize(ph[1].T2M),
          humidity_pct |-> Sanitize(ph[1].RH2M),
          wind_ms |-> Sanitize(ph[1].WS10M)]

(***************************************************************************)
(* getForecast: the code after Promise.all                                 *)
(***************************************************************************)

(* one element of phSeries *)
SeriesEntry(d, e) ==
  [dt |-> KeyInstant(d, e.hour),
   tempC |-> Sanitize(e.T2M),
   humidityPct |-> Sanitize(e.RH2M),
   windMs |-> Sanitize(e.WS10M),
   precipMm |-> Sanitize(e.PRECTOTCORR),
   uvIndex |-> Sanitize(e.ALLSKY_SFC_UV_INDEX)]

(* Array.prototype.sort((a,b) => a.dt - b.dt): stable, NaN compares as 0 *)
RECURSIVE InsertByDt(_, _)
InsertByDt(s, x) ==
  IF s = <<>> THEN <<x>>
  ELSE LET l == s[Len(s)]
       IN IF Gt(l.dt, x.dt) THEN Append(InsertByDt(SubSeq(s, 1, Len(s) - 1), x), l)
          ELSE Append(s, x)

RECURSIVE SortByDt(_)
SortByDt(s) ==
  IF s = <<>> THEN <<>>
  ELSE InsertByDt(SortByDt(SubSeq(s, 1, Len(s) - 1)), s[Len(s)])

PhSeries(d, pHourly) == SortByDt([k \in 1..Len(pHourly) |-> SeriesEntry(d, pHourly[k])])

(* phSeries.findIndex(h => h.dt >= target), else the last index, else -1;  *)
(* indices are counted from 1 here and 0 stands for -1                      *)
NearestIdx(phSeries, target) ==
  LET hits == {k \in 1..Len(phSeries) : Ge(phSeries[k].dt, target)}
  IN IF hits # {} THEN CHOOSE k \in hits : \A j \in hits : k <= j
     ELSE Len(phSeries)

(* phSeries.slice(nearestIdx, Math.min(nearestIdx + n, phSeries.length)) *)
NextSlice(phSeries, idx, n) ==
  IF idx = 0 THEN <<>>
  ELSE SubSeq(phSeries, idx, IF idx + n - 1 < Len(phSeries) THEN idx + n - 1 ELSE Len(phSeries))

(* a merge that asks the reanalysis value first *)
Coalesce3PowerFirst(a, b, c) == IF c # Null THEN c ELSE IF a # Null THEN a ELSE b

(* x != null ? f(x) : next *)
Coalesce3(a, b, c) == IF a # Null THEN a ELSE IF b # Null THEN b ELSE c

RoundOrNull(v) == IF v = Null THEN Null ELSE MathRound(v)

(* owHourly.filter(h => (h.dt*1000) >= now).slice(0, n) *)
OwNext(owHourly, now, n) ==
  LET f == SelectSeq(owHourly, LAMBDA h : Ge(h.dt, now))
  IN SubSeq(f, 1, IF Len(f) < n THEN Len(f) ELSE n)

OrZero(v) == IF v = Null THEN 0 ELSE v

(* rainfall of the next 6 hours, lines 357-367 *)
Rainfall6h(owHourly, now, next6, oeRain1h) ==
  LET sumOw == SumSeq(Column(OwNext(owHourly, now, 6), LAMBDA h : OrZero(h.rain1h)))
      fromOw == IF Len(owHourly) > 0
                  THEN Div(MathRound(Mul(sumOw, N(10))), N(10))
                  ELSE Null
      powerSum == SumSeq(Column(next6,
                    LAMBDA x : IF x.precipMm # Null /\ x.precipMm # 0
                                  /\ ~isInvalidPowerValue(x.precipMm)
                               THEN x.precipMm ELSE 0))
  IN IF fromOw = Null \/ fromOw = NaN
       THEN (IF Len(next6) > 0 THEN powerSum ELSE oeRain1h)
       ELSE fromOw

(* the "Final guard" on a display temperature, line 394 *)
GuardTemp(t) ==
  IF t # Null /\ t # NaN /\ t # N(0 - 999) /\ t # N(0 - 5994) THEN t ELSE Null

HourlyDisplay(owHourly, now, next12) ==
  IF Len(owHourly) > 0
    THEN LET n == OwNext(owHourly, now, 12)
         IN [k \in 1..Len(n) |->
               [at |-> n[k].dt,
                tempC |-> GuardTemp(RoundOrNull(n[k].temp)),
                icon |-> IF Ge(OrZero(n[k].rain1h), 200) THEN "rain"
                         ELSE IF Lt(OrZero(n[k].clouds), N(25)) THEN "sunny"
                         ELSE "cloudy"]]
    ELSE [k \in 1..Len(next12) |->
               [at |-> next12[k].dt,
                tempC |-> GuardTemp(RoundOrNull(next12[k].tempC)),
                icon |-> IF Ge(OrZero(next12[k].precipMm), 200) THEN "rain"
                         ELSE IF next12[k].uvIndex # Null /\ Ge(next12[k].uvIndex, N(5))
                           THEN "sunny"
                         ELSE "cloudy"]]

DailyDisplay(pDaily, uvDaily) ==
  IF pDaily.shaped
    THEN LET precRaw == OrZero(pDaily.PRECTOTCORR)
             precOk == IF ~isInvalidPowerValue(precRaw) THEN precRaw ELSE 0
         IN <<[minC |-> IF pDaily.T2M_MIN # Null /\ ~isInvalidPowerValue(pDaily.T2M_MIN)
                          THEN MathRound(pDaily.T2M_MIN) ELSE Null,
               maxC |-> IF pDaily.T2M_MAX # Null /\ ~isInvalidPowerValue(pDaily.T2M_MAX)
                          THEN MathRound(pDaily.T2M_MAX) ELSE Null,
               icon |-> IF uvDaily # Null /\ Gt(uvDaily, N(5)) THEN "sunny"
                        ELSE IF Gt(precOk, 0) THEN "rain" ELSE "cloudy"]>>
    ELSE <<>>

(* getForecast from line 293 to its end, as a function of what was fetched *)
MergeForecast(d, t, oe, openOneCall, pHourly, pDaily) ==
  LET target == TargetOf(d, t)
      phSeries == PhSeries(d, pHourly)
      nearestIdx == NearestIdx(phSeries, target)
      next6 == NextSlice(phSeries, nearestIdx, 6)
      next12 == NextSlice(phSeries, nearestIdx, 12)
      first == IF Len(next12) > 0 THEN next12[1]
               ELSE [dt |-> Null, tempC |-> Null, humidityPct |-> Null, windMs |-> Null,
                     precipMm |-> Null, uvIndex |-> Null]
      uvDaily == Sanitize(pDaily.ALLSKY_SFC_UV_INDEX)
      owCurrent == openOneCall.current
      owHourly == openOneCall.hourly
      oeTemp == oe.temperature_c
      oeHum == oe.humidity_pct
      oeWindMs == oe.wind_ms
      oeRain1h == Null
      oeUv == IF owCurrent.uvi # Null THEN owCurrent.uvi ELSE openOneCall.daily0uvi
      tempC == Coalesce3(RoundOrNull(owCurrent.temp), RoundOrNull(oeTemp), RoundOrNull(first.tempC))
      humidityPct == Coalesce3(RoundOrNull(owCurrent.humidity), RoundOrNull(oeHum),
                               RoundOrNull(first.humidityPct))
      windMs == Coalesce3(owCurrent.wind_speed, oeWindMs, first.windMs)
      uvIndex == Coalesce3(RoundOrNull(owCurrent.uvi), RoundOrNull(oeUv),
                           Coalesce3(RoundOrNull(uvDaily), RoundOrNull(first.uvIndex), Null))
      rainfallMm6h == Rainfall6h(owHourly, target, next6, oeRain1h)
  IN [threw |-> \E k \in 1..Len(owHourly) : owHourly[k].nul,
      phSeries |-> phSeries,
      first |-> first,
      hourly |-> HourlyDisplay(owHourly, target, next12),
      daily |-> DailyDisplay(pDaily, uvDaily),
      current |-> [kind |-> "snapshot",
                   locationName |-> AU_CITIES[1].name,
                   at |-> target,
                   tempC |-> tempC,
                   feelsLikeC |-> tempC,
                   humidityPct |-> humidityPct,
                   windMs |-> windMs,
                   windKmh |-> IF windMs # Null THEN MathRound(Mul(windMs, 3600)) ELSE Null,
                   uvIndex |-> uvIndex,
                   rainfallMm6h |-> rainfallMm6h]]


(***************************************************************************)
(* What the providers may answer                                           *)
(***************************************************************************)

(* a fetch that rejects, a non-2xx status, a body that is not JSON *)
Failures == {[kind |-> "neterr"], [kind |-> "http"], [kind |-> "badjson"]}

Ok(b) == [kind |-> "body", body |-> b]

Succeeded(o) == o.kind = "body"

(* POWER daily: the values stored under the requested day; shaped is       *)
(* whether properties.parameter.T2M_MAX exists at all                      *)
DailyBody(tmax, tmin, rh, uv, p) ==
  [shaped |-> TRUE, T2M_MAX |-> tmax, T2M_MIN |-> tmin, RH2M |-> rh,
   ALLSKY_SFC_UV_INDEX |-> uv, PRECTOTCORR |-> p]

(* a 2xx JSON body without properties.parameter, such as {} or null *)
DailyUnexpected ==
  [shaped |-> FALSE, T2M_MAX |-> Null, T2M_MIN |-> Null, RH2M |-> Null,
   ALLSKY_SFC_UV_INDEX |-> Null, PRECTOTCORR |-> Null]

DailyTypical == DailyBody(N(28), N(18), N(60), N(8), 0)

DailyBodies ==
  {DailyUnexpected,
   DailyTypical,
   DailyBody(N(0 - 999), N(0 - 999), N(0 - 999), N(0 - 999), N(0 - 999)),
   DailyBody(Null, Null, N(50), Null, 0),
   DailyBody(N(36), N(30), N(90), N(11), N(12)),
   DailyBody(N(2), N(0 - 4), Null, 0, Null),
   DailyBody(N(30), N(20), 0, N(3), N(2))}

(* POWER hourly: the entries in the order of Object.keys, which is the     *)
(* ascending order of the integer-like keys YYYYMMDDHH                     *)
HourlyUnexpected == <<>>

HourlyTypical ==
  <<HourlyEntry(0, N(20), N(65), N(3), 0, 0),
    HourlyEntry(12, N(20), N(50), N(4), N(6), 1500),
    HourlyEntry(13, N(26), N(48), N(5), N(7), 0)>>

HourlyBodies ==
  {HourlyUnexpected,
   HourlyTypical,
   <<HourlyEntry(0, N(0 - 999), N(0 - 5994), N(0 - 999), N(0 - 999), N(0 - 999))>>,
   <<HourlyEntry(0, Null, Null, Null, Null, Null)>>,
   <<HourlyEntry(0, 0, 0, 0, 0, 0)>>,
   <<HourlyEntry(12, N(22), N(50), N(3), N(2), Null)>>,
   <<HourlyEntry(11, N(5), N(80), N(5), 0, 400),
     HourlyEntry(12, N(0 - 5), N(0 - 999), N(15), N(0 - 999), N(0 - 999))>>,
   <<HourlyEntry(12, N(35), N(90), N(15), N(11), N(30))>>}

(* the Math.random() draws of one generateMockPowerData call, per hour *)
RandomStreams == {[h \in 0..(HoursPerDay - 1) |-> r] : r \in RandomValues}

(* OpenWeather current weather: main.temp, main.humidity, wind.speed *)
OwBody(t, h, w) == [temp |-> t, humidity |-> h, speed |-> w]

OwTypical == OwBody(30400, N(55), 4200)

OwBodies ==
  {OwBody(Null, Null, Null),
   OwTypical,
   OwBody(0, 0, 0),
   OwBody(N(0 - 3), Null, N(12))}

(* OpenWeather OneCall: current, hourly[] and daily[0].uvi *)
OwHour(at, t, rain, clouds) ==
  [nul |-> FALSE, dt |-> at, temp |-> t, rain1h |-> rain, clouds |-> clouds]

(* a null element of hourly[] *)
OwHourNull == [nul |-> TRUE, dt |-> Null, temp |-> Null, rain1h |-> Null, clouds |-> Null]

OneCallBody(t, h, w, uv, hrs, duv) ==
  [current |-> [temp |-> t, humidity |-> h, wind_speed |-> w, uvi |-> uv],
   hourly |-> hrs, daily0uvi |-> duv]

(* what the .catch handler returns, and what a body without the fields gives *)
OneCallNull == OneCallBody(Null, Null, Null, Null, <<>>, Null)

OneCallTypical ==
  OneCallBody(N(30), N(60), N(5), N(7),
              <<OwHour(12, N(29), Null, N(10)), OwHour(13, 28600, 1240, N(80)),
                OwHour(14, N(27), 300, N(90))>>, N(9))

OneCallBodies ==
  {OneCallNull,
   OneCallTypical,
   OneCallBody(0, 0, 0, 0, <<OwHour(12, 0, Null, Null)>>, Null),
   OneCallBody(Null, Null, Null, Null, <<OwHourNull>>, N(3)),
   OneCallBody(N(31), Null, Null, Null, <<>>, N(3))}

(* the comfort-risk backend: a 2xx JSON body *)
BodyNull == [kind |-> "null"]
BodyObject == [kind |-> "object"]

RiskIndexBand(c, hw) ==
  [center |-> c, low |-> MathMax(0, c - hw), high |-> MathMin(N(100), c + hw)]

(* the backend's result: bands of 15 when GEOS-S2S was available, else 10 *)
BackendResult(d, geos, h, c, w, r) ==
  LET hw == IF geos THEN N(15) ELSE N(10)
  IN [kind |-> "result",
      meta |-> [source |-> IF geos THEN "geos-s2s+gpm+merra2+power" ELSE "gpm+merra2+power",
                lat |-> AU_CITIES[1].lat, lon |-> AU_CITIES[1].lon, date |-> d],
      indices |-> [heat |-> RiskIndexBand(h, hw), cold |-> RiskIndexBand(c, hw),
                   wind |-> RiskIndexBand(w, hw), wet |-> RiskIndexBand(r, hw)]]

BackendBodies(d) ==
  {BodyNull, BodyObject}
    \cup {BackendResult(d, g, h, N(10), N(95), N(55)) : g \in BOOLEAN, h \in {N(5), N(42)}}

(* the payload of a share link: invalid tokens and non-objects are "none" *)
SharePayload(d, h, c, w, r) == [kind |-> "object", d |-> d, h |-> h, c |-> c, w |-> w, r |-> r]

SharePayloads ==
  {[kind |-> "invalid", d |-> Null, h |-> Null, c |-> Null, w |-> Null, r |-> Null],
   SharePayload(1, N(42), N(10), N(28), N(55)),
   SharePayload(30, N(5), N(95), 0, N(100)),
   SharePayload(0, N(150), N(10), N(28), N(55)),
   SharePayload(0, N(42), N(0 - 5), N(28), N(55)),
   SharePayload(Null, Null, Null, Null, Null)}

Dates == {0 - 1, 0, 1, 30, 31, EmptyDate}
Times == {0, 12}

(* the hour at which the card is opened *)
NowHour == 12


(***************************************************************************)
(* The share link: JSON.stringify and btoa in shareRisk, atob and          *)
(* JSON.parse in parseHash.  A text is a sequence of character codes, a    *)
(* token a sequence of base64 digits 0..63, with 64 for '=' and 65 for any *)
(* character outside the base64 alphabet.                                  *)
(***************************************************************************)
RECURSIVE DigitsOf(_)
DigitsOf(n) == IF n < 10 THEN <<48 + n>> ELSE Append(DigitsOf(n \div 10), 48 + (n % 10))

Pad2(n) == <<48 + (n \div 10), 48 + (n % 10)>>

(* the decimals of a number, without trailing zeros *)
FractionText(f) ==
  IF f = 0 THEN <<>>
  ELSE IF f % 100 = 0 THEN <<46, 48 + (f \div 100)>>
  ELSE IF f % 10 = 0 THEN <<46, 48 + (f \div 100), 48 + ((f \div 10) % 10)>>
  ELSE <<46, 48 + (f \div 100), 48 + ((f \div 10) % 10), 48 + (f % 10)>>

NullText == <<110, 117, 108, 108>>

(* JSON.stringify of a number: NaN and the infinities become null *)
NumberText(x) ==
  IF ~IsFinite(x) THEN NullText
  ELSE (IF x < 0 THEN <<45>> ELSE <<>>) \o DigitsOf(Abs(x) \div Unit)
         \o FractionText(Abs(x) % Unit)

(* the value of the date input, "YYYY-MM-DD", the card being opened on     *)
(* 2025-10-01; the cleared input is the empty string                       *)
DateText(d) ==
  IF d = EmptyDate THEN <<>>
  ELSE LET md == IF d < 0 THEN <<9, 31 + d>>
                 ELSE IF d <= 30 THEN <<10, d + 1>>
                 ELSE <<11, d - 30>>
       IN <<50, 48, 50, 53, 45>> \o Pad2(md[1]) \o <<45>> \o Pad2(md[2])

(* "key":value, and nothing for an undefined value *)
Member(key, present, text) == IF present THEN <<<<34, key, 34, 58>> \o text>> ELSE <<>>

RECURSIVE JoinMembers(_)
JoinMembers(ms) ==
  IF Len(ms) = 0 THEN <<>>
  ELSE IF Len(ms) = 1 THEN ms[1]
  ELSE ms[1] \o <<44>> \o JoinMembers(Tail(ms))

(* JSON.stringify({ d, h, c, w, r }) *)
JsonStringify(p) ==
  <<123>> \o JoinMembers(Member(100, TRUE, <<34>> \o DateText(p.d) \o <<34>>)
                         \o Member(104, p.h # Null, NumberText(p.h))
                         \o Member(99, p.c # Null, NumberText(p.c))
                         \o Member(119, p.w # Null, NumberText(p.w))
                         \o Member(114, p.r # Null, NumberText(p.r)))
         \o <<125>>

(* btoa: three characters become four base64 digits, '=' fills the end *)
RECURSIVE Btoa(_)
Btoa(b) ==
  IF Len(b) = 0 THEN <<>>
  ELSE IF Len(b) = 1 THEN <<b[1] \div 4, (b[1] % 4) * 16, 64, 64>>
  ELSE IF Len(b) = 2
    THEN <<b[1] \div 4, (b[1] % 4) * 16 + (b[2] \div 16), (b[2] % 16) * 4, 64>>
  ELSE <<b[1] \div 4, (b[1] % 4) * 16 + (b[2] \div 16),
         (b[2] % 16) * 4 + (b[3] \div 64), b[3] % 64>> \o Btoa(SubSeq(b, 4, Len(b)))

(* atob: one or two '=' at the end of a token of 4n digits are dropped;    *)
(* it throws on a length of 4n+1 and on any character outside the alphabet *)
StripPadding(t) ==
  IF Len(t) > 0 /\ Len(t) % 4 = 0 /\ t[Len(t)] = 64
    THEN IF t[Len(t) - 1] = 64 THEN SubSeq(t, 1, Len(t) - 2) ELSE SubSeq(t, 1, Len(t) - 1)
    ELSE t

AtobThrows(t) ==
  LET u == StripPadding(t)
  IN Len(u) % 4 = 1 \/ \E k \in 1..Len(u) : u[k] \notin 0..63

RECURSIVE DecodeDigits(_)
DecodeDigits(u) ==
  IF Len(u) < 2 THEN <<>>
  ELSE IF Len(u) = 2 THEN <<u[1] * 4 + (u[2] \div 16)>>
  ELSE IF Len(u) = 3 THEN <<u[1] * 4 + (u[2] \div 16), (u[2] % 16) * 16 + (u[3] \div 4)>>
  ELSE <<u[1] * 4 + (u[2] \div 16), (u[2] % 16) * 16 + (u[3] \div 4), (u[3] % 4) * 64 + u[4]>>
         \o DecodeDigits(SubSeq(u, 5, Len(u)))

Atob(t) == DecodeDigits(StripPadding(t))

(* JSON.parse of the texts a share link can hold: null, a number, a        *)
(* string without escapes, [] and an object of such members.  A parse       *)
(* result is [ok, val, next]; val is [t |-> "null" | "num" | "str", v].     *)
IsDigit(ch) == ch \in 48..57

At(s, i) == IF i \in 1..Len(s) THEN s[i] ELSE 0

(* the first position from i on that holds no digit *)
EndOfDigits(s, i) ==
  CHOOSE j \in i..(Len(s) + 1) :
    /\ \A k \in i..(j - 1) : IsDigit(s[k])
    /\ ~IsDigit(At(s, j))

RECURSIVE NumberOf(_)
NumberOf(ds) == IF Len(ds) = 0 THEN 0 ELSE NumberOf(SubSeq(ds, 1, Len(ds) - 1)) * 10 + (ds[Len(ds)] - 48)

ParseFail == [ok |-> FALSE, val |-> [t |-> "null", v |-> <<>>], next |-> 0]

ThousandthsOf(ds) ==
  LET d3 == SubSeq(ds \o <<48, 48, 48>>, 1, 3) IN NumberOf(d3)

ParseNumber(s, i) ==
  LET neg == At(s, i) = 45
      a == IF neg THEN i + 1 ELSE i
      b == EndOfDigits(s, a)
      hasFraction == At(s, b) = 46
      c == IF hasFraction THEN EndOfDigits(s, b + 1) ELSE b
      whole == NumberOf(SubSeq(s, a, b - 1)) * Unit
      part == IF hasFraction THEN ThousandthsOf(SubSeq(s, b + 1, c - 1)) ELSE 0
  IN IF b = a \/ (hasFraction /\ c = b + 1) \/ b - a > 5 THEN ParseFail
     ELSE [ok |-> TRUE,
           val |-> [t |-> "num", v |-> <<IF neg THEN 0 - (whole + part) ELSE whole + part>>],
           next |-> c]

ParseString(s, i) ==
  LET ends == {j \in (i + 1)..Len(s) : s[j] = 34}
  IN IF At(s, i) # 34 \/ ends = {} THEN ParseFail
     ELSE LET j == CHOOSE e \in ends : \A f \in ends : e <= f
          IN [ok |-> TRUE, val |-> [t |-> "str", v |-> SubSeq(s, i + 1, j - 1)], next |-> j + 1]

ParseValue(s, i) ==
  IF At(s, i) = 34 THEN ParseString(s, i)
  ELSE IF At(s, i) = 45 \/ IsDigit(At(s, i)) THEN ParseNumber(s, i)
  ELSE IF SubSeq(s \o <<0, 0, 0, 0>>, i, i + 3) = NullText
    THEN [ok |-> TRUE, val |-> [t |-> "null", v |-> <<>>], next |-> i + 4]
  ELSE ParseFail

(* the members from position i on, up to and with the closing brace; acc   *)
(* collects <<key, value>> pairs                                            *)
RECURSIVE ParseMembers(_, _, _)
ParseMembers(s, i, acc) ==
  LET k == ParseString(s, i)
      v == ParseValue(s, k.next + 1)
  IN IF ~k.ok \/ At(s, k.next) # 58 \/ ~v.ok THEN ParseFail
     ELSE LET more == Append(acc, <<k.val.v, v.val>>)
          IN IF At(s, v.next) = 44 THEN ParseMembers(s, v.next + 1, more)
             ELSE IF At(s, v.next) = 125
               THEN [ok |-> TRUE, val |-> [t |-> "obj", v |-> more], next |-> v.next + 1]
             ELSE ParseFail

(* JSON.parse: "throws", a "primitive", an "array" or an "object" *)
JsonParse(s) ==
  IF At(s, 1) = 123
    THEN LET r == IF At(s, 2) = 125
                    THEN [ok |-> TRUE, val |-> [t |-> "obj", v |-> <<>>], next |-> 3]
                    ELSE ParseMembers(s, 2, <<>>)
         IN IF r.ok /\ r.next = Len(s) + 1 THEN [kind |-> "object", members |-> r.val.v]
            ELSE [kind |-> "throws", members |-> <<>>]
  ELSE IF s = <<91, 93>> THEN [kind |-> "array", members |-> <<>>]
  ELSE LET r == ParseValue(s, 1)
       IN IF r.ok /\ r.next = Len(s) + 1 THEN [kind |-> "primitive", members |-> <<>>]
          ELSE [kind |-> "throws", members |-> <<>>]

(* the date a date text stands for; any other text is no date of the card *)
OtherText == EmptyDate - 1

TextDate(t) ==
  IF \E d \in Dates : DateText(d) = t THEN CHOOSE d \in Dates : DateText(d) = t
  ELSE OtherText

(* payload.k: the last member of that key, undefined when there is none;   *)
(* null and undefined are both Null                                         *)
Lookup(members, key) ==
  LET hits == {n \in 1..Len(members) : members[n][1] = <<key>>}
  IN IF hits = {} THEN [t |-> "null", v |-> <<>>]
     ELSE members[CHOOSE n \in hits : \A m \in hits : m <= n][2]

CenterOf(val) == IF val.t = "num" THEN val.v[1] ELSE Null

DateOf(val) == IF val.t = "str" THEN TextDate(val.v) ELSE Null

(* a parseHash without the typeof test of line 223 *)
DecodeNoTypeCheck(t) ==
  LET j == IF AtobThrows(t) THEN [kind |-> "throws", members |-> <<>>] ELSE JsonParse(Atob(t))
  IN IF j.kind \in {"object", "array", "primitive"}
       THEN SharePayload(DateOf(Lookup(j.members, 100)), CenterOf(Lookup(j.members, 104)),
                         CenterOf(Lookup(j.members, 99)), CenterOf(Lookup(j.members, 119)),
                         CenterOf(Lookup(j.members, 114)))
       ELSE [kind |-> "invalid", d |-> Null, h |-> Null, c |-> Null, w |-> Null, r |-> Null]

(* JSON.parse(atob(enc)) as parseHash sees it: a thrown exception and a    *)
(* value that is no object leave parseHash without effect; an array is an  *)
(* object without d, h, c, w and r                                          *)
Decode(t) ==
  LET j == IF AtobThrows(t) THEN [kind |-> "throws", members |-> <<>>] ELSE JsonParse(Atob(t))
  IN IF j.kind \in {"object", "array"}
       THEN SharePayload(DateOf(Lookup(j.members, 100)), CenterOf(Lookup(j.members, 104)),
                         CenterOf(Lookup(j.members, 99)), CenterOf(Lookup(j.members, 119)),
                         CenterOf(Lookup(j.members, 114)))
       ELSE [kind |-> "invalid", d |-> Null, h |-> Null, c |-> Null, w |-> Null, r |-> Null]

(***************************************************************************)
(* State                                                                   *)
(***************************************************************************)
MaxForecastCalls == 2
MaxRiskCalls == 2

VARIABLES
  city,         \* useState(AU_CITIES[0])
  dateISO,      \* selected date
  timeHHMM,     \* selected time
  loading,      \* getForecast in progress
  error,        \* getForecast's error message, "null" when none
  current,      \* merged current snapshot
  hourly,       \* hourly display blocks
  daily,        \* daily display blocks
  riskLoading,  \* checkComfortRisk in progress
  riskError,    \* checkComfortRisk's error message, "null" when none
  riskResult,   \* the comfort-risk result shown
  fc,           \* the getForecast invocations in flight
  rc,           \* the checkComfortRisk invocations in flight
  lastMerge,    \* what the last finished getForecast fetched and derived
  lastRisk,     \* what supplied the risk result shown
  gen,          \* the last two results of the synthetic generators
  hash,         \* window.location.hash behind '#comfort=', and what was put there
  shareLink,    \* the link shareRisk showed last, and the payload it encoded
  cyclone       \* the cyclone page: its state and its callPredict in flight

vars == <<city, dateISO, timeHHMM, loading, error, current, hourly, daily,
          riskLoading, riskError, riskResult, fc, rc, lastMerge, lastRisk, gen,
          hash, shareLink, cyclone>>

forecastVars == <<loading, error, current, hourly, daily, fc, lastMerge>>
riskVars == <<riskLoading, riskError, riskResult, rc, lastRisk>>
otherVars == <<shareLink, cyclone>>
auxVars == <<hash, otherVars>>

NoHash == [what |-> "none", text |-> <<>>]
NoLink == [kind |-> "none"]

NoSnapshot == [kind |-> "null"]
NoOe == [temperature_c |-> Null, humidity_pct |-> Null, wind_ms |-> Null]

(* the requests of a getForecast in the order they are issued, and how     *)
(* those of fetchWeather ended                                              *)
Request(by, to) == [ev |-> "ask", by |-> by, to |-> to]
Settled(ok, by, to) == [ev |-> IF ok THEN "ok" ELSE "fail", by |-> by, to |-> to]

IdleForecast ==
  [pc |-> "idle", date |-> 0, time |-> 0, oe |-> NoOe, oeSrc |-> "none",
   pending |-> {}, openOneCall |-> OneCallNull, oneCallLive |-> FALSE,
   pHourly |-> <<>>, pHourlySrc |-> "none",
   pDaily |-> DailyUnexpected, pDailySrc |-> "none", log |-> <<>>,
   newest |-> FALSE]

(* getForecast has reached the await of line 268 *)
AwaitingOpenWeather(d, t) ==
  [IdleForecast EXCEPT !.pc = "ow", !.date = d, !.time = t, !.newest = TRUE,
                       !.log = <<Request("fetchWeather", "openweather")>>]

IdleRisk ==
  [pc |-> "idle", date |-> 0, pd |-> DailyUnexpected, pdSrc |-> "none",
   newest |-> FALSE]

(* the calls in flight, none of them the most recent one any more *)
Superseded(calls) == [j \in DOMAIN calls |-> [calls[j] EXCEPT !.newest = FALSE]]

NoMerge == [kind |-> "none"]
NoRisk == [kind |-> "none"]

ForecastIdle == \A i \in 1..MaxForecastCalls : fc[i].pc = "idle"
RiskIdle == \A i \in 1..MaxRiskCalls : rc[i].pc = "idle"

FreeForecast(i) ==
  fc[i].pc = "idle" /\ \A j \in 1..(i - 1) : fc[j].pc # "idle"

FreeRisk(i) ==
  rc[i].pc = "idle" /\ \A j \in 1..(i - 1) : rc[j].pc # "idle"

(* getForecast up to its first await: setError(null), setLoading(true) and  *)
(* the OpenWeather request of fetchWeather, with the values of this render  *)
StartForecast(i, d, t) ==
  /\ FreeForecast(i)
  /\ error' = "null"
  /\ loading' = TRUE
  /\ fc' = [Superseded(fc) EXCEPT ![i] = AwaitingOpenWeather(d, t)]
  /\ UNCHANGED <<current, hourly, daily, lastMerge>>

(* The cyclone page (pages/Cyclone.jsx).  callPredict walks the base URLs, *)
(* POST first and GET second on each; its log keeps the requests and how   *)
(* each one ended.                                                          *)
BaseUrls == <<"http://127.0.0.1:8000", "http://localhost:8000", "">>

States == {"New South Wales", "Queensland"}

NoRow == [kind |-> "null", state |-> "", risk_level |-> ""]
Row(st, risk) == [kind |-> "row", state |-> st, risk_level |-> risk]

NoRisks == [st \in States |-> ""]

SelectMessage == "Please select a state on the map first."
UnavailableMessage == "Prediction service unavailable."
NotIterableMessage == "data is not iterable"

(* bodies of /predict/cyclone/all: text that is no JSON, null, an object   *)
(* that is no array, and arrays of rows                                     *)
CycloneBody(t, rows) == [t |-> t, rows |-> rows]

CycloneBodies ==
  {CycloneBody("unparseable", <<>>),
   CycloneBody("null", <<>>),
   CycloneBody("object", <<>>),
   CycloneBody("rows", <<Row("New South Wales", "High"), Row("Queensland", "Low")>>),
   CycloneBody("rows", <<Row("Queensland", "Medium")>>)}

CycloneIdle ==
  [pc |-> "idle", url |-> 1, method |-> "POST", sel |-> "", ok |-> FALSE]

CycloneInit ==
  [selected |-> "", date |-> 0, error |-> "", loading |-> FALSE, result |-> NoRow,
   riskByState |-> NoRisks, call |-> CycloneIdle, log |-> <<>>]

Ask(url, method) == [ev |-> "ask", url |-> url, method |-> method, timedOut |-> FALSE]
Ended(ev, url, method, timedOut) ==
  [ev |-> ev, url |-> url, method |-> method, timedOut |-> timedOut]

(* the state after mounting without a share link: the effect of line 703    *)
(* has called getForecast                                                   *)
Init ==
  /\ city = AU_CITIES[1]
  /\ dateISO = 0
  /\ timeHHMM = NowHour
  /\ loading = TRUE
  /\ error = "null"
  /\ current = NoSnapshot
  /\ hourly = <<>>
  /\ daily = <<>>
  /\ riskLoading = FALSE
  /\ riskError = "null"
  /\ riskResult = BodyNull
  /\ fc = [i \in 1..MaxForecastCalls |->
            IF i = 1 THEN AwaitingOpenWeather(0, timeHHMM)
            ELSE IdleForecast]
  /\ rc = [i \in 1..MaxRiskCalls |-> IdleRisk]
  /\ lastMerge = NoMerge
  /\ lastRisk = NoRisk
  /\ gen = <<>>
  /\ hash = NoHash
  /\ shareLink = NoLink
  /\ cyclone = CycloneInit

(***************************************************************************)
(* getForecast                                                             *)
(***************************************************************************)

(* the "Get Forecast" button *)
ClickGetForecast ==
  /\ \E i \in 1..MaxForecastCalls : StartForecast(i, dateISO, timeHHMM)
  /\ UNCHANGED <<city, dateISO, timeHHMM, gen, auxVars>>
  /\ UNCHANGED riskVars

(* the date input: setDateISO, then the effect of line 703 *)
SetDateISO(d) ==
  /\ d # dateISO
  /\ dateISO' = d
  /\ \E i \in 1..MaxForecastCalls : StartForecast(i, d, timeHHMM)
  /\ UNCHANGED <<city, timeHHMM, gen, auxVars>>
  /\ UNCHANGED riskVars

(* the time input: setTimeHHMM, then the effect of line 703 *)
SetTimeHHMM(t) ==
  /\ t # timeHHMM
  /\ timeHHMM' = t
  /\ \E i \in 1..MaxForecastCalls : StartForecast(i, dateISO, t)
  /\ UNCHANGED <<city, dateISO, gen, auxVars>>
  /\ UNCHANGED riskVars

(* Promise.all of line 277 starts the three remaining requests *)
StartAll(call, oe, src) ==
  [call EXCEPT !.pc = "all", !.oe = oe, !.oeSrc = src,
               !.pending = {"onecall", "hourly", "daily"},
               !.log = @ \o <<Request("getForecast", "onecall"),
                              Request("getForecast", "power hourly"),
                              Request("getForecast", "power daily")>>]

(* fetchOpenWeather settles *)
OpenWeatherResponds(i, o) ==
  /\ fc[i].pc = "ow"
  /\ fc' = [fc EXCEPT ![i] =
              IF Succeeded(o)
                THEN StartAll([@ EXCEPT !.log = Append(@, Settled(TRUE, "fetchWeather",
                                                                  "openweather"))],
                              MapOpenWeather(o.body), "openweather")
                ELSE [@ EXCEPT !.pc = "fwPower",
                               !.log = @ \o <<Settled(FALSE, "fetchWeather", "openweather"),
                                              Request("fetchWeather", "power hourly")>>]]
  /\ UNCHANGED <<city, dateISO, timeHHMM, loading, error, current, hourly, daily,
                 lastMerge, gen, auxVars>>
  /\ UNCHANGED riskVars

(* generateMockPowerData for Sydney under every stream of draws; the start  *)
(* date only names the keys                                                 *)
MockHourly ==
  [rw \in RandomStreams, rp \in RandomStreams |->
     generateMockPowerData(0, AU_CITIES[1].lat, AU_CITIES[1].lon, rw, rp)]

(* fetchPowerHourly: the body of a 2xx answer, else generateMockPowerData *)
fetchPowerHourly(d, o, rw, rp) ==
  IF Succeeded(o) THEN o.body ELSE MockHourly[rw, rp]

(* fetchPowerDaily: the body of a 2xx answer, else generateMockPowerDailyData *)
fetchPowerDaily(d, o, ruv, rp) ==
  IF Succeeded(o) THEN o.body
  ELSE generateMockPowerDailyData(d, AU_CITIES[1].lat, AU_CITIES[1].lon, ruv, rp)

SourceOf(o) == IF Succeeded(o) THEN "power" ELSE "synthetic"

(* the fetchPowerHourly of fetchWeather's catch branch settles *)
FallbackPowerResponds(i, o, rw, rp) ==
  /\ fc[i].pc = "fwPower"
  /\ fc' = [fc EXCEPT ![i] =
              StartAll([@ EXCEPT !.log = Append(@, Settled(Succeeded(o), "fetchWeather",
                                                           "power hourly"))],
                       FetchWeatherFromPower(fetchPowerHourly(@.date, o, rw, rp)),
                       SourceOf(o))]
  /\ UNCHANGED <<city, dateISO, timeHHMM, loading, error, current, hourly, daily,
                 lastMerge, gen, auxVars>>
  /\ UNCHANGED riskVars

(* fetchOpenWeatherOneCall(...).catch(() => null) settles *)
OneCallResponds(i, o) ==
  /\ fc[i].pc = "all"
  /\ "onecall" \in fc[i].pending
  /\ fc' = [fc EXCEPT ![i] =
              [@ EXCEPT !.pending = @ \ {"onecall"},
                        !.openOneCall = IF Succeeded(o) THEN o.body ELSE OneCallNull,
                        !.oneCallLive = Succeeded(o)]]
  /\ UNCHANGED <<city, dateISO, timeHHMM, loading, error, current, hourly, daily,
                 lastMerge, gen, auxVars>>
  /\ UNCHANGED riskVars

(* the fetchPowerHourly of Promise.all settles *)
PowerHourlyResponds(i, o, rw, rp) ==
  /\ fc[i].pc = "all"
  /\ "hourly" \in fc[i].pending
  /\ fc' = [fc EXCEPT ![i] =
              [@ EXCEPT !.pending = @ \ {"hourly"},
                        !.pHourly = fetchPowerHourly(@.date, o, rw, rp),
                        !.pHourlySrc = SourceOf(o)]]
  /\ UNCHANGED <<city, dateISO, timeHHMM, loading, error, current, hourly, daily,
                 lastMerge, gen, auxVars>>
  /\ UNCHANGED riskVars

(* the fetchPowerDaily of Promise.all settles *)
PowerDailyResponds(i, o, ruv, rp) ==
  /\ fc[i].pc = "all"
  /\ "daily" \in fc[i].pending
  /\ fc' = [fc EXCEPT ![i] =
              [@ EXCEPT !.pending = @ \ {"daily"},
                        !.pDaily = fetchPowerDaily(@.date, o, ruv, rp),
                        !.pDailySrc = SourceOf(o)]]
  /\ UNCHANGED <<city, dateISO, timeHHMM, loading, error, current, hourly, daily,
                 lastMerge, gen, auxVars>>
  /\ UNCHANGED riskVars

(* the continuation of Promise.all: lines 293-438 *)
GetForecastMerge(i) ==
  /\ fc[i].pc = "all"
  /\ fc[i].pending = {}
  /\ LET c == fc[i]
         m == MergeForecast(c.date, c.time, c.oe, c.openOneCall, c.pHourly, c.pDaily)
     IN /\ IF m.threw
             THEN /\ error' = "TypeError"
                  /\ UNCHANGED <<current, hourly, daily>>
             ELSE /\ hourly' = m.hourly
                  /\ daily' = m.daily
                  /\ current' = m.current
                  /\ UNCHANGED error
        /\ lastMerge' = [kind |-> "merge", threw |-> m.threw, date |-> c.date,
                         time |-> c.time, oe |-> c.oe, oeSrc |-> c.oeSrc,
                         openOneCall |-> c.openOneCall, oneCallLive |-> c.oneCallLive,
                         pHourly |-> c.pHourly, pHourlySrc |-> c.pHourlySrc,
                         pDaily |-> c.pDaily, pDailySrc |-> c.pDailySrc,
                         phSeries |-> m.phSeries, first |-> m.first,
                         current |-> m.current, log |-> c.log, newest |-> c.newest]
  /\ loading' = FALSE
  /\ fc' = [fc EXCEPT ![i] = IdleForecast]
  /\ UNCHANGED <<city, dateISO, timeHHMM, gen, auxVars>>
  /\ UNCHANGED riskVars


(***************************************************************************)
(* checkComfortRisk                                                        *)
(***************************************************************************)
RangeMessage == "Please select a date within the next 30 days for long-range risk."

(* Math.floor((dSel - today)/msPerDay): NaN for an Invalid Date *)
DiffDays(d) == IF d = EmptyDate THEN NaN ELSE d

FinishRisk(i) == rc' = [rc EXCEPT ![i] = IdleRisk]

(* the "Check Comfort Risk" button, up to the request to /api/comfort-risk *)
ClickCheckComfortRisk ==
  /\ \E i \in 1..MaxRiskCalls :
       /\ FreeRisk(i)
       /\ IF Lt(DiffDays(dateISO), 0) \/ Gt(DiffDays(dateISO), 30)
            THEN /\ riskError' = RangeMessage
                 /\ riskLoading' = FALSE
                 /\ UNCHANGED rc
            ELSE /\ riskError' = "null"
                 /\ riskLoading' = TRUE
                 /\ rc' = [Superseded(rc) EXCEPT
                             ![i] = [IdleRisk EXCEPT !.pc = "backend", !.date = dateISO,
                                                     !.newest = TRUE]]
  /\ UNCHANGED <<riskResult, lastRisk>>
  /\ UNCHANGED <<city, dateISO, timeHHMM, gen, auxVars>>
  /\ UNCHANGED forecastVars

(* the request to /api/comfort-risk settles: lines 545-560 *)
BackendResponds(i, o) ==
  /\ rc[i].pc = "backend"
  /\ LET data == IF Succeeded(o) THEN o.body ELSE BodyNull
     IN IF data.kind # "null"
          THEN /\ riskResult' = data
               /\ lastRisk' = [kind |-> "backend", newest |-> rc[i].newest]
               /\ riskLoading' = FALSE
               /\ FinishRisk(i)
          ELSE /\ rc' = [rc EXCEPT ![i] = [@ EXCEPT !.pc = "daily"]]
               /\ UNCHANGED <<riskResult, lastRisk, riskLoading>>
  /\ UNCHANGED riskError
  /\ UNCHANGED <<city, dateISO, timeHHMM, gen, auxVars>>
  /\ UNCHANGED forecastVars

(* computeLocalRiskFallback: its fetchPowerDaily settles *)
RiskDailyResponds(i, o, ruv, rp) ==
  /\ rc[i].pc = "daily"
  /\ rc' = [rc EXCEPT ![i] =
              [@ EXCEPT !.pc = "hourly",
                        !.pd = fetchPowerDaily(@.date, o, ruv, rp),
                        !.pdSrc = SourceOf(o)]]
  /\ UNCHANGED <<riskLoading, riskError, riskResult, lastRisk>>
  /\ UNCHANGED <<city, dateISO, timeHHMM, gen, auxVars>>
  /\ UNCHANGED forecastVars

(* computeLocalRiskFallback: its fetchPowerHourly settles, lines 466-560 *)
RiskHourlyResponds(i, o, rw, rp) ==
  /\ rc[i].pc = "hourly"
  /\ LET ph == fetchPowerHourly(rc[i].date, o, rw, rp)
     IN /\ riskResult' = computeLocalRiskFallback(rc[i].date, rc[i].pd, ph)
        /\ lastRisk' = [kind |-> "local", date |-> rc[i].date,
                        pd |-> rc[i].pd, pdSrc |-> rc[i].pdSrc,
                        tmean |-> MeanTemp(rc[i].pd, ph),
                        hasWind |-> \E k \in 1..Len(ph) : ph[k].WS10M # Null,
                        windMs |-> MeanWind(ph), ph |-> ph, newest |-> rc[i].newest,
                        phSrc |-> SourceOf(o)]
  /\ riskLoading' = FALSE
  /\ FinishRisk(i)
  /\ UNCHANGED riskError
  /\ UNCHANGED <<city, dateISO, timeHHMM, gen, auxVars>>
  /\ UNCHANGED forecastVars

(***************************************************************************)
(* parseHash                                                               *)
(***************************************************************************)

(* undefined - 10 is NaN *)
ToNumber(v) == IF v = Null THEN NaN ELSE v

(* { center: c, low: Math.max(0, c-10), high: Math.min(100, c+10) } *)
SharedBand(c) ==
  [center |-> c,
   low |-> MathMax(0, Sub(ToNumber(c), N(10))),
   high |-> MathMin(N(100), Add(ToNumber(c), N(10)))]

SharedResult(p) ==
  [kind |-> "result",
   meta |-> [source |-> "shared", lat |-> AU_CITIES[1].lat, lon |-> AU_CITIES[1].lon,
             date |-> p.d],
   indices |-> [heat |-> SharedBand(p.h), cold |-> SharedBand(p.c),
                wind |-> SharedBand(p.w), wet |-> SharedBand(p.r)]]

(* if (payload.d) *)
Truthy(d) == d # Null /\ d # EmptyDate

(* parseHash on a '#comfort=' link; a changed date re-runs the effect of line 703 *)
ParseHash(p) ==
  /\ IF p.kind = "object"
       THEN /\ riskResult' = SharedResult(p)
            /\ lastRisk' = [kind |-> "shared"]
            /\ IF Truthy(p.d) /\ p.d # dateISO
                 THEN /\ dateISO' = p.d
                      /\ \E i \in 1..MaxForecastCalls : StartForecast(i, p.d, timeHHMM)
                 ELSE /\ UNCHANGED dateISO
                      /\ UNCHANGED forecastVars
       ELSE /\ UNCHANGED <<riskResult, lastRisk, dateISO>>
            /\ UNCHANGED forecastVars
  /\ UNCHANGED <<city, timeHHMM, gen, otherVars>>
  /\ UNCHANGED <<riskLoading, riskError, rc>>

(* the hashchange event (and the mount with a link): parseHash reads the   *)
(* new hash                                                                 *)
HashChange(h) ==
  /\ h # hash
  /\ hash' = h
  /\ ParseHash(Decode(h.text))

(***************************************************************************)
(* shareRisk                                                               *)
(***************************************************************************)
(* the payload of lines 628-634 *)
ShareRecord(d, r) ==
  SharePayload(d, r.indices.heat.center, r.indices.cold.center, r.indices.wind.center,
               r.indices.wet.center)

(* shareRisk: nothing without a result; a result without indices throws    *)
(* into the catch of line 644; otherwise the link is copied or shown        *)
shareRisk ==
  /\ riskResult.kind # "null"
  /\ IF "indices" \in DOMAIN riskResult
       THEN shareLink' = [kind |-> "link",
                          text |-> Btoa(JsonStringify(ShareRecord(dateISO, riskResult))),
                          payload |-> ShareRecord(dateISO, riskResult),
                          metaDate |-> riskResult.meta.date]
       ELSE UNCHANGED shareLink
  /\ UNCHANGED <<city, dateISO, timeHHMM, gen, hash, cyclone>>
  /\ UNCHANGED forecastVars
  /\ UNCHANGED riskVars

(* the link shareRisk produced is opened *)
OpenShareLink ==
  /\ shareLink.kind = "link"
  /\ HashChange([what |-> "link", text |-> shareLink.text])

(***************************************************************************)
(* callPredict                                                             *)
(***************************************************************************)
cardVars == <<city, dateISO, timeHHMM, gen, hash, shareLink>>

(* a click on a state of the map: lines 137-145 *)
SelectState(st) ==
  /\ cyclone' = [cyclone EXCEPT !.selected = st, !.error = ""]
  /\ UNCHANGED cardVars
  /\ UNCHANGED forecastVars
  /\ UNCHANGED riskVars

(* the date input of the cyclone page: line 499 *)
SetCycloneDate(d) ==
  /\ d # cyclone.date
  /\ cyclone' = [cyclone EXCEPT !.date = d]
  /\ UNCHANGED cardVars
  /\ UNCHANGED forecastVars
  /\ UNCHANGED riskVars

(* the Predict button, disabled while loading: lines 228-261 *)
ClickPredict ==
  /\ ~cyclone.loading
  /\ cyclone' =
       IF cyclone.selected = ""
         THEN [cyclone EXCEPT !.error = SelectMessage, !.result = NoRow]
         ELSE [cyclone EXCEPT !.error = "", !.result = NoRow, !.loading = TRUE,
                              !.call = [CycloneIdle EXCEPT !.pc = "fetch",
                                                           !.sel = cyclone.selected],
                              !.log = <<Ask(1, "POST")>>]
  /\ UNCHANGED cardVars
  /\ UNCHANGED forecastVars
  /\ UNCHANGED riskVars

(* a URL that skips over localhost after a failed GET *)
NextAttemptSkipping(url, method) ==
  IF method = "POST" THEN [more |-> TRUE, url |-> url, method |-> "GET"]
  ELSE IF url < Len(BaseUrls) - 1
    THEN [more |-> TRUE, url |-> url + 2, method |-> "POST"]
  ELSE [more |-> FALSE, url |-> url, method |-> method]

(* what follows a failed attempt: GET on the same URL after POST (line     *)
(* 282), POST on the next URL after GET (continue, lines 294 and 301)       *)
NextAttempt(url, method) ==
  IF method = "POST" THEN [more |-> TRUE, url |-> url, method |-> "GET"]
  ELSE IF url < Len(BaseUrls)
    THEN [more |-> TRUE, url |-> url + 1, method |-> "POST"]
  ELSE [more |-> FALSE, url |-> url, method |-> method]

(* lines 305-329 with data null: the error of line 306 *)
PredictUnavailable(c, log) ==
  [c EXCEPT !.error = UnavailableMessage, !.loading = FALSE, !.call = CycloneIdle,
            !.log = log]

(* an attempt failed: the next one is started, or the loop is left *)
AttemptFailed(timedOut) ==
  LET c == cyclone.call
      log == Append(cyclone.log, Ended("fail", c.url, c.method, timedOut))
      n == NextAttempt(c.url, c.method)
  IN cyclone' =
       IF n.more
         THEN [cyclone EXCEPT !.call = [c EXCEPT !.pc = "fetch", !.url = n.url,
                                                 !.method = n.method, !.ok = FALSE],
                              !.log = Append(log, Ask(n.url, n.method))]
         ELSE PredictUnavailable(cyclone, log)

(* fetch rejects: the backend cannot be reached *)
PredictFetchFails ==
  /\ cyclone.call.pc = "fetch"
  /\ AttemptFailed(FALSE)
  /\ UNCHANGED cardVars
  /\ UNCHANGED forecastVars
  /\ UNCHANGED riskVars

(* the timer of fetchWithTimeout aborts the fetch: lines 247-256 *)
PredictTimeout ==
  /\ cyclone.call.pc = "fetch"
  /\ AttemptFailed(TRUE)
  /\ UNCHANGED cardVars
  /\ UNCHANGED forecastVars
  /\ UNCHANGED riskVars

(* fetch resolves with the response headers; the timer is cleared *)
PredictHeaders(ok) ==
  /\ cyclone.call.pc = "fetch"
  /\ cyclone' = [cyclone EXCEPT !.call = [@ EXCEPT !.pc = "body", !.ok = ok]]
  /\ UNCHANGED cardVars
  /\ UNCHANGED forecastVars
  /\ UNCHANGED riskVars

(* setRiskByState(mapping) of lines 311-315 *)
MappingOf(rows) ==
  [st \in States |->
     LET hits == {k \in 1..Len(rows) : rows[k].state = st}
     IN IF hits = {} THEN ""
        ELSE rows[CHOOSE k \in hits : \A j \in hits : j <= k].risk_level]

(* data.find((r) => r.state === selected.state) || null *)
FindRow(rows, st) ==
  LET hits == {k \in 1..Len(rows) : rows[k].state = st}
  IN IF hits = {} THEN NoRow ELSE rows[CHOOSE k \in hits : \A j \in hits : k <= j]

(* the body has arrived: lines 262-277 (283-297 for GET), then 305-329 *)
PredictBody(b) ==
  /\ cyclone.call.pc = "body"
  /\ LET c == cyclone.call
         log == Append(cyclone.log, Ended("ok", c.url, c.method, FALSE))
     IN IF b.t = "unparseable" THEN AttemptFailed(FALSE)
        ELSE IF ~c.ok THEN AttemptFailed(FALSE)
        ELSE IF b.t = "null" THEN cyclone' = PredictUnavailable(cyclone, log)
        ELSE IF b.t = "object"
          THEN cyclone' = [cyclone EXCEPT !.error = NotIterableMessage, !.loading = FALSE,
                                          !.call = CycloneIdle, !.log = log]
        ELSE cyclone' = [cyclone EXCEPT !.riskByState = MappingOf(b.rows),
                                        !.result = FindRow(b.rows, c.sel),
                                        !.loading = FALSE, !.call = CycloneIdle,
                                        !.log = log]
  /\ UNCHANGED cardVars
  /\ UNCHANGED forecastVars
  /\ UNCHANGED riskVars

(***************************************************************************)
(* The synthetic generators, called on their own                           *)
(***************************************************************************)
Remember(g) == gen' = IF gen = <<>> THEN <<g>> ELSE <<gen[Len(gen)], g>>

CallMockDaily(d, ruv, rp) ==
  /\ Remember([fn |-> "daily", date |-> d,
               out |-> <<generateMockPowerDailyData(d, AU_CITIES[1].lat, AU_CITIES[1].lon,
                                                    ruv, rp)>>])
  /\ UNCHANGED <<city, dateISO, timeHHMM>>
  /\ UNCHANGED forecastVars
  /\ UNCHANGED riskVars
  /\ UNCHANGED auxVars

CallMockHourly(d, rw, rp) ==
  /\ Remember([fn |-> "hourly", date |-> d, out |-> MockHourly[rw, rp]])
  /\ UNCHANGED <<city, dateISO, timeHHMM>>
  /\ UNCHANGED forecastVars
  /\ UNCHANGED riskVars
  /\ UNCHANGED auxVars

(***************************************************************************)
(* Specifications                                                          *)
(***************************************************************************)
Unreachable == [kind |-> "neterr"]

(* hashes: links to given payloads, and texts that are no link *)
EmptyObjectText == <<123, 125>>

PayloadHash(p) ==
  IF p.kind # "object" THEN [what |-> "not base64", text |-> <<65, 4, 5, 6>>]
  ELSE IF p.d = Null THEN [what |-> "empty object", text |-> Btoa(EmptyObjectText)]
  ELSE [what |-> "object", text |-> Btoa(JsonStringify(p))]

TypicalLink == Btoa(JsonStringify(SharePayload(1, N(42), N(10), N(28), N(55))))

MalformedHashes ==
  {[what |-> "not base64", text |-> <<65, 4, 5, 6>>],
   [what |-> "truncated", text |-> SubSeq(TypicalLink, 1, Len(TypicalLink) - 3)],
   [what |-> "truncated", text |-> SubSeq(TypicalLink, 1, Len(TypicalLink) - 8)],
   [what |-> "not JSON", text |-> Btoa(<<104, 105>>)],
   [what |-> "no object", text |-> Btoa(<<52, 50>>)],
   [what |-> "no object", text |-> Btoa(NullText)]}
Stream == [h \in 0..(HoursPerDay - 1) |-> 500]

(* every way the POWER hourly request can settle *)
HourlySettles(A(_, _, _)) ==
  \/ \E b \in HourlyBodies : A(Ok(b), Stream, Stream)
  \/ \E o \in Failures, rw \in RandomStreams, rp \in RandomStreams : A(o, rw, rp)

(* every way the POWER daily request can settle *)
DailySettles(A(_, _, _)) ==
  \/ \E b \in DailyBodies : A(Ok(b), 0, 0)
  \/ \E o \in Failures, ruv \in RandomValues, rp \in RandomValues : A(o, ruv, rp)

(* The card in use, one getForecast and one checkComfortRisk at a time,     *)
(* every provider answering in one way.                                     *)
Next ==
  \/ ForecastIdle /\ ClickGetForecast
  \/ ForecastIdle /\ \E d \in {0, 1, 31} : SetDateISO(d)
  \/ ForecastIdle /\ \E t \in Times : SetTimeHHMM(t)
  \/ \E i \in 1..MaxForecastCalls : OpenWeatherResponds(i, Unreachable)
  \/ \E i \in 1..MaxForecastCalls : FallbackPowerResponds(i, Ok(HourlyTypical), Stream, Stream)
  \/ \E i \in 1..MaxForecastCalls : OneCallResponds(i, Ok(OneCallTypical))
  \/ \E i \in 1..MaxForecastCalls : PowerHourlyResponds(i, Ok(HourlyTypical), Stream, Stream)
  \/ \E i \in 1..MaxForecastCalls : PowerDailyResponds(i, Ok(DailyTypical), 0, 0)
  \/ \E i \in 1..MaxForecastCalls : GetForecastMerge(i)
  \/ RiskIdle /\ ClickCheckComfortRisk
  \/ \E i \in 1..MaxRiskCalls : BackendResponds(i, Unreachable)
  \/ \E i \in 1..MaxRiskCalls : RiskDailyResponds(i, Ok(DailyTypical), 0, 0)
  \/ \E i \in 1..MaxRiskCalls : RiskHourlyResponds(i, Ok(HourlyTypical), Stream, Stream)
  \/ ForecastIdle /\ HashChange(PayloadHash(SharePayload(1, N(42), N(10), N(28), N(55))))

Spec == Init /\ [][Next]_vars

(* The first comfort-risk check of a session, its three providers           *)
(* answering freely, while the forecast requests stay unanswered.           *)
NextRisk ==
  \/ \E d \in Dates : SetDateISO(d)
  \/ riskResult = BodyNull /\ RiskIdle /\ ClickCheckComfortRisk
  \/ \E i \in 1..MaxRiskCalls :
       \E o \in Failures \cup {Ok(b) : b \in BackendBodies(rc[i].date)} :
         BackendResponds(i, o)
  \/ \E i \in 1..MaxRiskCalls :
       DailySettles(LAMBDA o, ruv, rp : RiskDailyResponds(i, o, ruv, rp))
  \/ \E i \in 1..MaxRiskCalls :
       HourlySettles(LAMBDA o, rw, rp : RiskHourlyResponds(i, o, rw, rp))
  \/ \E p \in SharePayloads : HashChange(PayloadHash(p))

SpecRisk == Init /\ [][NextRisk]_vars

(* One getForecast, from mounting to its merge, the four providers          *)
(* answering freely.                                                        *)
NextForecast ==
  \/ \E i \in 1..MaxForecastCalls, o \in Failures \cup {Ok(b) : b \in OwBodies} :
       OpenWeatherResponds(i, o)
  \/ \E i \in 1..MaxForecastCalls :
       HourlySettles(LAMBDA o, rw, rp : FallbackPowerResponds(i, o, rw, rp))
  \/ \E i \in 1..MaxForecastCalls, o \in Failures \cup {Ok(b) : b \in OneCallBodies} :
       OneCallResponds(i, o)
  \/ \E i \in 1..MaxForecastCalls :
       HourlySettles(LAMBDA o, rw, rp : PowerHourlyResponds(i, o, rw, rp))
  \/ \E i \in 1..MaxForecastCalls :
       DailySettles(LAMBDA o, ruv, rp : PowerDailyResponds(i, o, ruv, rp))
  \/ \E i \in 1..MaxForecastCalls : GetForecastMerge(i)

SpecForecast == Init /\ [][NextForecast]_vars

(* The generators alone, called with every date and every random draw.      *)
NextMock ==
  \/ \E d \in {0, 1}, ruv \in RandomValues, rp \in RandomValues : CallMockDaily(d, ruv, rp)
  \/ \E d \in {0, 1}, rw \in RandomStreams, rp \in RandomStreams : CallMockHourly(d, rw, rp)

SpecMock == Init /\ [][NextMock]_vars

(* The first risk check, shareRisk and links: the link just produced,      *)
(* texts that are no share token, and an array.                             *)
ShareDailyBodies ==
  {DailyTypical,
   DailyBody(N(0 - 999), N(0 - 999), N(0 - 999), N(0 - 999), N(0 - 999)),
   DailyBody(Null, Null, N(50), Null, 0)}

ArrayHash == [what |-> "array", text |-> Btoa(<<91, 93>>)]

NextShare ==
  \/ SetDateISO(1)
  \/ riskResult = BodyNull /\ RiskIdle /\ ClickCheckComfortRisk
  \/ \E i \in 1..MaxRiskCalls : \E o \in {Unreachable, Ok(BodyObject)} : BackendResponds(i, o)
  \/ \E i \in 1..MaxRiskCalls, b \in ShareDailyBodies : RiskDailyResponds(i, Ok(b), 0, 0)
  \/ \E i \in 1..MaxRiskCalls, b \in {HourlyTypical, HourlyUnexpected} :
       RiskHourlyResponds(i, Ok(b), Stream, Stream)
  \/ shareRisk
  \/ OpenShareLink
  \/ \E h \in MalformedHashes \cup {ArrayHash} : HashChange(h)

SpecShare == Init /\ [][NextShare]_vars

(* The getForecast of mounting and the first callPredict of the cyclone    *)
(* page side by side, every request settling in every way.                  *)
NextFallback ==
  \/ \E i \in 1..MaxForecastCalls, o \in {Unreachable, Ok(OwTypical)} :
       OpenWeatherResponds(i, o)
  \/ \E i \in 1..MaxForecastCalls, o \in {Unreachable, Ok(HourlyTypical)} :
       FallbackPowerResponds(i, o, Stream, Stream)
  \/ \E i \in 1..MaxForecastCalls : OneCallResponds(i, Ok(OneCallTypical))
  \/ \E i \in 1..MaxForecastCalls : PowerHourlyResponds(i, Ok(HourlyTypical), Stream, Stream)
  \/ \E i \in 1..MaxForecastCalls : PowerDailyResponds(i, Ok(DailyTypical), 0, 0)
  \/ \E i \in 1..MaxForecastCalls : GetForecastMerge(i)
  \/ \E st \in States : SelectState(st)
  \/ cyclone.log = <<>> /\ ClickPredict
  \/ PredictFetchFails
  \/ PredictTimeout
  \/ \E ok \in BOOLEAN : PredictHeaders(ok)
  \/ \E b \in CycloneBodies : PredictBody(b)

SpecFallback == Init /\ [][NextFallback]_vars

(* Waiting.  The providers and the user are free to act or not; what the   *)
(* program does on its own happens: the timer of fetchWithTimeout fires    *)
(* while its fetch is pending, and the continuation of Promise.all runs    *)
(* once all three requests have settled.                                    *)
NextWait ==
  \/ \E i \in 1..MaxForecastCalls, o \in {Unreachable, Ok(OwTypical)} :
       OpenWeatherResponds(i, o)
  \/ \E i \in 1..MaxForecastCalls : FallbackPowerResponds(i, Unreachable, Stream, Stream)
  \/ \E i \in 1..MaxForecastCalls : OneCallResponds(i, Unreachable)
  \/ \E i \in 1..MaxForecastCalls : PowerHourlyResponds(i, Ok(HourlyTypical), Stream, Stream)
  \/ \E i \in 1..MaxForecastCalls : PowerDailyResponds(i, Ok(DailyTypical), 0, 0)
  \/ \E i \in 1..MaxForecastCalls : GetForecastMerge(i)
  \/ SelectState("Queensland")
  \/ cyclone.log = <<>> /\ ClickPredict
  \/ PredictTimeout
  \/ \E ok \in BOOLEAN : PredictHeaders(ok)
  \/ PredictBody(CycloneBody("rows", <<Row("Queensland", "Medium")>>))

(* the await of Promise.all is resumed: what a GetForecastMerge step does  *)
(* to the call and to the loading flag                                      *)
GetForecastResumes ==
  \E i \in 1..MaxForecastCalls :
    /\ fc[i].pc = "all"
    /\ fc[i].pending = {}
    /\ fc' = [fc EXCEPT ![i] = IdleForecast]
    /\ loading' = FALSE

(* The scenarios of the local risk computation: a benign day, and days    *)
(* with winds of 15 m/s and of 5 m/s.                                       *)
ScenarioDaily == {DailyBody(N(22), N(22), N(50), N(5), 0), DailyTypical}

ScenarioHourly ==
  {<<HourlyEntry(12, N(22), N(50), N(3), N(5), 0)>>,
   <<HourlyEntry(12, N(24), N(50), N(15), N(5), 0)>>,
   <<HourlyEntry(12, N(24), N(50), N(5), N(5), 0)>>,
   <<HourlyEntry(11, N(24), N(50), N(14), N(5), 0),
     HourlyEntry(12, N(24), N(50), N(16), N(5), 0)>>}

NextScenario ==
  \/ \E d \in {1, 30} : SetDateISO(d)
  \/ RiskIdle /\ ClickCheckComfortRisk
  \/ \E i \in 1..MaxRiskCalls : BackendResponds(i, Unreachable)
  \/ \E i \in 1..MaxRiskCalls, b \in ScenarioDaily : RiskDailyResponds(i, Ok(b), 0, 0)
  \/ \E i \in 1..MaxRiskCalls, b \in ScenarioHourly :
       RiskHourlyResponds(i, Ok(b), Stream, Stream)

SpecScenario == Init /\ [][NextScenario]_vars

(* The cyclone page in use: states are selected, the date is changed and  *)
(* Predict is pressed again and again.                                      *)
NextCyclone ==
  \/ \E st \in States : SelectState(st)
  \/ \E d \in {0, 1} : SetCycloneDate(d)
  \/ ClickPredict
  \/ PredictFetchFails
  \/ PredictHeaders(TRUE)
  \/ \E b \in {CycloneBody("rows", <<Row("New South Wales", "High"), Row("Queensland", "Low")>>),
                CycloneBody("rows", <<Row("Queensland", "Medium")>>)} : PredictBody(b)

SpecCyclone == Init /\ [][NextCyclone]_vars

(* Calls that overlap.  First the date is changed while earlier            *)
(* getForecast calls are in flight; once the forecasts have settled the    *)
(* risk check is pressed, again and after date changes, while earlier      *)
(* checks are in flight, and the forecast providers stay silent.            *)
RiskUntouched == RiskIdle /\ lastRisk.kind = "none" /\ riskError = "null"

NextOverlap ==
  \/ \E d \in {0, 1} : SetDateISO(d)
  \/ RiskUntouched /\ \E i \in 1..MaxForecastCalls : OpenWeatherResponds(i, Ok(OwTypical))
  \/ RiskUntouched /\ \E i \in 1..MaxForecastCalls : OneCallResponds(i, Unreachable)
  \/ RiskUntouched /\ \E i \in 1..MaxForecastCalls :
                         PowerHourlyResponds(i, Ok(HourlyTypical), Stream, Stream)
  \/ RiskUntouched /\ \E i \in 1..MaxForecastCalls :
                         PowerDailyResponds(i, Ok(DailyTypical), 0, 0)
  \/ RiskUntouched /\ \E i \in 1..MaxForecastCalls : GetForecastMerge(i)
  \/ (RiskUntouched => ForecastIdle) /\ ClickCheckComfortRisk
  \/ \E i \in 1..MaxRiskCalls : BackendResponds(i, Unreachable)
  \/ \E i \in 1..MaxRiskCalls : RiskDailyResponds(i, Ok(DailyTypical), 0, 0)
  \/ \E i \in 1..MaxRiskCalls : RiskHourlyResponds(i, Ok(HourlyTypical), Stream, Stream)

SpecOverlap == Init /\ [][NextOverlap]_vars

SpecWait ==
  /\ Init
  /\ [][NextWait]_vars
  /\ WF_vars(PredictTimeout)
  /\ WF_<<fc, loading>>(GetForecastResumes)


(***************************************************************************)
(* Properties                                                              *)
(***************************************************************************)
Hazards == {"heat", "cold", "wind", "wet"}

HasIndices(r) == "indices" \in DOMAIN r /\ DOMAIN r.indices = Hazards

InRange(d) == Ge(DiffDays(d), 0) /\ Le(DiffDays(d), 30)

(* C1: every checkComfortRisk for a date 0..30 days ahead finishes with     *)
(* riskError null and a riskResult that holds the four indices, whatever   *)
(* the backend, POWER daily and POWER hourly answer.                        *)
C1_RiskComputationTotal ==
  [][\A i \in 1..MaxRiskCalls :
       (rc[i].pc # "idle" /\ rc'[i].pc = "idle" /\ InRange(rc[i].date))
         => (riskError' = "null" /\ HasIndices(riskResult'))]_vars

Bounded(x) == 0 <= x.low /\ x.low <= x.center /\ x.center <= x.high /\ x.high <= N(100)

(* C2: whenever a risk result computed locally or rebuilt from a share      *)
(* token is held, each of its four indices has 0 <= low <= center <= high   *)
(* <= 100.                                                                  *)
C2_RiskIndexBounds ==
  (lastRisk.kind \in {"local", "shared"} /\ HasIndices(riskResult))
    => \A k \in Hazards : Bounded(riskResult.indices[k])

AllAbsent(oe) == oe.temperature_c = Null /\ oe.humidity_pct = Null /\ oe.wind_ms = Null

(* C3: what fetchWeather returns to getForecast never has temperature,      *)
(* humidity and wind all absent.                                            *)
C3_SnapshotNeverAllAbsent ==
  \A i \in 1..MaxForecastCalls : fc[i].pc = "all" => ~AllAbsent(fc[i].oe)

(* the usedSyntheticFallback marker of a result: true only when the field   *)
(* exists and is true                                                       *)
Marked(r) == "usedSyntheticFallback" \in DOMAIN r /\ r.usedSyntheticFallback

RiskUsedSynthetic == lastRisk.kind = "local" /\ "synthetic" \in {lastRisk.pdSrc, lastRisk.phSrc}

RiskUsedReal == lastRisk.kind = "local" /\ "synthetic" \notin {lastRisk.pdSrc, lastRisk.phSrc}

ForecastUsedSynthetic ==
  /\ lastMerge.kind = "merge"
  /\ ~lastMerge.threw
  /\ "synthetic" \in {lastMerge.oeSrc, lastMerge.pHourlySrc, lastMerge.pDailySrc}

(* C4: a risk result or forecast snapshot that the synthetic generator     *)
(* supplied carries a true usedSyntheticFallback marker, and one built     *)
(* from real provider data does not.                                        *)
C4_SyntheticIsMarked ==
  /\ RiskUsedSynthetic => Marked(riskResult)
  /\ RiskUsedReal => ~Marked(riskResult)
  /\ ForecastUsedSynthetic => Marked(current)

(* C5: two calls of a synthetic generator with the same latitude,          *)
(* longitude and date return the same values.                               *)
C5_GeneratorDeterministic ==
  \A a \in 1..Len(gen), b \in 1..Len(gen) :
    (gen[a].fn = gen[b].fn /\ gen[a].date = gen[b].date) => gen[a].out = gen[b].out

Merged == lastMerge.kind = "merge" /\ ~lastMerge.threw

(* what the sanitizer is to return for a raw value *)
Expected(v) == IF v \in {N(0 - 999), N(0 - 5994), Null} THEN Null ELSE v

(* C6: every field of every phSeries entry is absent when the raw POWER    *)
(* value is -999, -5994 or missing, and is the raw value otherwise.         *)
C6_SanitizerExact ==
  lastMerge.kind = "merge" =>
    /\ Len(lastMerge.phSeries) = Len(lastMerge.pHourly)
    /\ \A k \in 1..Len(lastMerge.pHourly) :
         LET raw == lastMerge.pHourly[k]
             e == lastMerge.phSeries[k]
         IN /\ e.tempC = Expected(raw.T2M)
            /\ e.humidityPct = Expected(raw.RH2M)
            /\ e.windMs = Expected(raw.WS10M)
            /\ e.precipMm = Expected(raw.PRECTOTCORR)
            /\ e.uvIndex = Expected(raw.ALLSKY_SFC_UV_INDEX)

(* a payload with sentinels next to a negative and a zero value went       *)
(* through the sanitizer                                                    *)
C6_Witness ==
  /\ lastMerge.kind = "merge"
  /\ \E k \in 1..Len(lastMerge.pHourly) :
       /\ lastMerge.pHourly[k].RH2M = N(0 - 999)
       /\ lastMerge.phSeries[k].humidityPct = Null
       /\ lastMerge.phSeries[k].tempC = N(0 - 5)
  /\ \E k \in 1..Len(lastMerge.pHourly) :
       /\ lastMerge.pHourly[k].ALLSKY_SFC_UV_INDEX = 0
       /\ lastMerge.phSeries[k].uvIndex = 0

(* the live OpenWeather values of one field, OneCall first, and the        *)
(* reanalysis values behind them                                            *)
LiveOf(oneCallValue, oeValue) ==
  IF oneCallValue # Null THEN oneCallValue
  ELSE IF lastMerge.oeSrc = "openweather" THEN oeValue ELSE Null

ReanalysisOf(oeValue, powerValue) ==
  IF lastMerge.oeSrc # "openweather" /\ oeValue # Null THEN oeValue ELSE powerValue

Precedence(live, reanalysis, merged, rounded) ==
  LET conv(v) == IF v = Null THEN Null ELSE IF rounded THEN MathRound(v) ELSE v
  IN IF live # Null THEN merged = conv(live) ELSE merged = conv(reanalysis)

(* C7: for temperature, humidity, wind and UV the merged value is the      *)
(* live OpenWeather value (rounded as the card shows it) whenever one is   *)
(* present, and a POWER value only when every live value is absent.         *)
C7_LiveWins ==
  Merged =>
    LET ow == lastMerge.openOneCall.current
        oe == lastMerge.oe
        pw == lastMerge.first
        cur == lastMerge.current
        uvDaily == Expected(lastMerge.pDaily.ALLSKY_SFC_UV_INDEX)
    IN /\ Precedence(LiveOf(ow.temp, oe.temperature_c),
                     ReanalysisOf(oe.temperature_c, pw.tempC), cur.tempC, TRUE)
       /\ Precedence(LiveOf(ow.humidity, oe.humidity_pct),
                     ReanalysisOf(oe.humidity_pct, pw.humidityPct), cur.humidityPct, TRUE)
       /\ Precedence(LiveOf(ow.wind_speed, oe.wind_ms),
                     ReanalysisOf(oe.wind_ms, pw.windMs), cur.windMs, FALSE)
       /\ Precedence(IF ow.uvi # Null THEN ow.uvi ELSE lastMerge.openOneCall.daily0uvi,
                     IF uvDaily # Null THEN uvDaily ELSE pw.uvIndex, cur.uvIndex, TRUE)

(* live temperature 30 met reanalysis temperature 20 and 30 was shown *)
C7_Witness ==
  /\ Merged
  /\ lastMerge.openOneCall.current.temp = N(30)
  /\ lastMerge.first.tempC = N(20)
  /\ lastMerge.current.tempC = N(30)
  /\ current = lastMerge.current

NoPrecipitationReported ==
  /\ \A k \in 1..Len(lastMerge.openOneCall.hourly) :
       lastMerge.openOneCall.hourly[k].rain1h = Null
  /\ \A k \in 1..Len(lastMerge.pHourly) :
       Expected(lastMerge.pHourly[k].PRECTOTCORR) = Null

(* C8: a merged field is absent whenever no source supplied a value for    *)
(* it; the 6-hour rainfall is absent, not 0, when neither the OpenWeather  *)
(* hourly entries nor the POWER hourly entries carry a precipitation.       *)
C8_AbsenceIsNotZero ==
  Merged =>
    LET ow == lastMerge.openOneCall.current
        oe == lastMerge.oe
        pw == lastMerge.first
        cur == lastMerge.current
    IN /\ (ow.temp = Null /\ oe.temperature_c = Null /\ pw.tempC = Null) => cur.tempC = Null
       /\ (ow.humidity = Null /\ oe.humidity_pct = Null /\ pw.humidityPct = Null)
            => cur.humidityPct = Null
       /\ (ow.wind_speed = Null /\ oe.wind_ms = Null /\ pw.windMs = Null) => cur.windMs = Null
       /\ NoPrecipitationReported => cur.rainfallMm6h = Null

DefaultBand == [center |-> 0, low |-> 0, high |-> N(10)]

(* C9: a hazard whose input metric is absent (apparent heat, apparent      *)
(* cold, wind speed, daily precipitation) gets center 0, low 0, high 10.    *)
C9_AbsentMetricGivesZero ==
  (lastRisk.kind = "local" /\ HasIndices(riskResult)) =>
    /\ humidex(lastRisk.tmean, lastRisk.pd.RH2M) = Null
         => riskResult.indices.heat = DefaultBand
    /\ windChill(lastRisk.tmean, lastRisk.windMs) = Null
         => riskResult.indices.cold = DefaultBand
    /\ ~lastRisk.hasWind => riskResult.indices.wind = DefaultBand
    /\ lastRisk.pd.PRECTOTCORR = Null => riskResult.indices.wet = DefaultBand

IsPercent(x) == 0 <= x /\ x <= N(100)

HalfWidth(r) == IF r.meta.source = "geos-s2s+gpm+merra2+power" THEN N(15) ELSE N(10)

BandOf(x, hw) ==
  /\ IsPercent(x.center)
  /\ x.low = (IF x.center - hw < 0 THEN 0 ELSE x.center - hw)
  /\ x.high = (IF x.center + hw > N(100) THEN N(100) ELSE x.center + hw)

(* C10: every computed index has low = center - w and high = center + w,   *)
(* clamped to [0,100], with w = 15 when GEOS-S2S contributed and 10        *)
(* otherwise.                                                               *)
C10_BandHalfWidth ==
  (lastRisk.kind \in {"local", "backend"} /\ HasIndices(riskResult)) =>
    \A k \in Hazards : BandOf(riskResult.indices[k], HalfWidth(riskResult))


Opened ==
  /\ hash.what = "link"
  /\ shareLink.kind = "link"
  /\ hash.text = shareLink.text
  /\ lastRisk.kind = "shared"

(* C11: when the link shareRisk produced has been opened, the risk result  *)
(* parseHash built has the date and the four center values that were       *)
(* encoded.                                                                 *)
C11_ShareRoundTrip ==
  Opened =>
    /\ riskResult.meta.date = shareLink.payload.d
    /\ riskResult.indices.heat.center = shareLink.payload.h
    /\ riskResult.indices.cold.center = shareLink.payload.c
    /\ riskResult.indices.wind.center = shareLink.payload.w
    /\ riskResult.indices.wet.center = shareLink.payload.r

Malformed == {"not base64", "truncated", "not JSON", "no object"}

(* C12: a hash whose payload is not base64, not JSON (a truncated token    *)
(* among them) or no object leaves riskResult, the selected date and the   *)
(* selected city as they were.                                              *)
C12_MalformedLinkIgnored ==
  [][(hash' # hash /\ hash'.what \in Malformed)
       => (riskResult' = riskResult /\ dateISO' = dateISO /\ city' = city)]_vars

(* a truncated token arrived while a risk result was shown *)
C12_Witness ==
  /\ hash.what = "truncated"
  /\ HasIndices(riskResult)
  /\ lastRisk.kind = "local"

(* C13: a produced share token holds letters and digits only (the base64   *)
(* digits 0..61): no '+', no '/' and no '='.                                *)
C13_TokenUrlSafe ==
  shareLink.kind = "link" => \A k \in 1..Len(shareLink.text) : shareLink.text[k] \in 0..61


(* C14: checkComfortRisk called with a date that cannot be parsed, lies    *)
(* before today or more than 30 days ahead sets riskError, issues no       *)
(* request and leaves riskResult as it was.                                 *)
C14_InvalidDateSurfaced ==
  [][(ClickCheckComfortRisk /\ ~InRange(dateISO))
       => (riskError' # "null" /\ rc' = rc /\ riskResult' = riskResult)]_vars

(* C15: whatever the four providers of getForecast answer, getForecast     *)
(* finishes with error null and a current snapshot set.                     *)
C15_ForecastAbsorbsFailures ==
  [][\A i \in 1..MaxForecastCalls :
       (fc[i].pc # "idle" /\ fc'[i].pc = "idle")
         => (error' = "null" /\ current'.kind = "snapshot")]_vars

(* C16: while getForecast waits for its current-conditions chain, the      *)
(* POWER hourly and POWER daily requests of its reanalysis chains are      *)
(* already under way.                                                       *)
C16_ChainsStartTogether ==
  \A i \in 1..MaxForecastCalls :
    fc[i].pc \in {"ow", "fwPower"} => {"hourly", "daily"} \subseteq fc[i].pending


(* C17: a getForecast or a callPredict whose provider never answers, or    *)
(* never finishes its body, is given up once the timeout has elapsed, and  *)
(* the operation completes with its loading flag back at false.            *)
C17_BoundedWait ==
  /\ loading ~> ~loading
  /\ cyclone.loading ~> ~cyclone.loading

(* C20: callPredict asks the base URLs in list order and fetchWeather asks *)
(* OpenWeather before POWER hourly; nothing is asked after a success, and  *)
(* a source is asked only when every request before it has failed.         *)
FetchWeatherOrder == <<"openweather", "power hourly">>

Asks(log) == SelectSeq(log, LAMBDA e : e.ev = "ask")

ShortCircuit(log) ==
  /\ \A k \in 1..Len(log) : log[k].ev = "ok" => k = Len(log)
  /\ \A k \in 2..Len(log) : log[k].ev = "ask" => log[k - 1].ev = "fail"

UrlsInOrder(log) ==
  LET asks == Asks(log)
  IN /\ Len(asks) <= 2 * Len(BaseUrls)
     /\ \A k \in 1..Len(asks) : asks[k].url = (k + 1) \div 2

FetchWeatherInOrder(log) ==
  LET own == SelectSeq(log, LAMBDA e : e.by = "fetchWeather")
      asks == Asks(own)
  IN /\ Len(asks) <= Len(FetchWeatherOrder)
     /\ \A k \in 1..Len(asks) : asks[k].to = FetchWeatherOrder[k]
     /\ ShortCircuit(own)

C20_FallbackOrder ==
  /\ UrlsInOrder(cyclone.log)
  /\ ShortCircuit(cyclone.log)
  /\ \A i \in 1..MaxForecastCalls : FetchWeatherInOrder(fc[i].log)
  /\ lastMerge.kind = "merge" => FetchWeatherInOrder(lastMerge.log)

C20_Witness ==
  /\ Len(cyclone.log) = 8
  /\ cyclone.log[8] = Ended("ok", 2, "GET", FALSE)
  /\ cyclone.result.kind = "row"
  /\ lastMerge.kind = "merge"
  /\ lastMerge.oeSrc = "power"
  /\ Len(Asks(lastMerge.log)) = 5

(* C18: every POWER value computeLocalRiskFallback uses goes through the   *)
(* sanitizer: the indices are those of the same payloads with -999 and     *)
(* -5994 taken as absent.                                                   *)
SanitizedDaily(pd) ==
  [pd EXCEPT !.T2M_MAX = Sanitize(@), !.T2M_MIN = Sanitize(@),
             !.RH2M = Sanitize(@), !.PRECTOTCORR = Sanitize(@)]

SanitizedHourly(ph) ==
  [k \in 1..Len(ph) |-> [ph[k] EXCEPT !.T2M = Sanitize(@), !.WS10M = Sanitize(@)]]

C18_NoSentinelInRisk ==
  (lastRisk.kind = "local" /\ HasIndices(riskResult)) =>
    riskResult.indices =
      computeLocalRiskFallback(lastRisk.date, SanitizedDaily(lastRisk.pd),
                               SanitizedHourly(lastRisk.ph)).indices

(* C19: in the local risk computation the apparent heat is absent when the *)
(* mean temperature or the humidity is absent, the apparent cold is absent *)
(* when the mean temperature or the wind speed is absent, and neither an   *)
(* absent wind speed nor an absent apparent cold is replaced by a value.   *)
C19_AbsencePropagates ==
  lastRisk.kind = "local" =>
    LET t == lastRisk.tmean
        w == lastRisk.windMs
        wc == windChill(t, w)
    IN /\ (t = Null \/ lastRisk.pd.RH2M = Null) => humidex(t, lastRisk.pd.RH2M) = Null
       /\ ~lastRisk.hasWind => w = Null
       /\ (t = Null \/ ~lastRisk.hasWind) => wc = Null
       /\ wc = Null => coldMetric(wc) = Null

(* C21: within one callPredict each base URL is asked at most once, and    *)
(* within one getForecast each provider endpoint is asked at most once.    *)
AskedOnce(asks, Key(_)) ==
  \A j \in 1..Len(asks), k \in 1..Len(asks) : Key(asks[j]) = Key(asks[k]) => j = k

EndpointOf(e) == e.to
UrlOf(e) == e.url

C21_NoRetry ==
  /\ AskedOnce(Asks(cyclone.log), UrlOf)
  /\ \A i \in 1..MaxForecastCalls : AskedOnce(Asks(fc[i].log), EndpointOf)
  /\ lastMerge.kind = "merge" => AskedOnce(Asks(lastMerge.log), EndpointOf)

(* C22: once no getForecast is in flight the displayed forecast was        *)
(* written by the most recent getForecast, and once no checkComfortRisk is *)
(* in flight the displayed risk result was written by the most recent      *)
(* check: the results of superseded calls are not the ones that stay.      *)
C22_LatestRequestWins ==
  /\ (ForecastIdle /\ lastMerge.kind = "merge") => lastMerge.newest
  /\ (RiskIdle /\ lastRisk.kind \in {"local", "backend"}) => lastRisk.newest

(* C26: loading is true while a getForecast is in flight and false when    *)
(* none is; riskLoading likewise for checkComfortRisk.                      *)
C26_LoadingReflectsWork ==
  /\ loading = ~ForecastIdle
  /\ riskLoading = ~RiskIdle

LocalWind(x) ==
  lastRisk.kind = "local" /\ HasIndices(riskResult) /\ lastRisk.hasWind /\ lastRisk.windMs = x

Near(x, y) == y - Unit <= x /\ x <= y + Unit

(* C23 as stated: a wind of 15 m/s gives a wind center of about 94 and a   *)
(* wind of 5 m/s a wind center of about 10.                                 *)
C23_WindScenario ==
  /\ LocalWind(N(15)) => Near(riskResult.indices.wind.center, N(94))
  /\ LocalWind(N(5)) => Near(riskResult.indices.wind.center, N(10))

(* C23 amended: with threshold 10 and scale 1.5 a wind of 15 m/s gives a   *)
(* wind center of 97 and a wind of 5 m/s a wind center of 3.                *)
C23_WindScenarioComputed ==
  /\ LocalWind(N(15)) => riskResult.indices.wind.center = N(97)
  /\ LocalWind(N(5)) => riskResult.indices.wind.center = N(3)

C23_Witness ==
  /\ LocalWind(N(15))
  /\ Len(lastRisk.ph) = 2
  /\ riskResult.indices.wind = [center |-> N(97), low |-> N(87), high |-> N(100)]

BenignDay ==
  /\ lastRisk.kind = "local"
  /\ HasIndices(riskResult)
  /\ lastRisk.pd.PRECTOTCORR = 0
  /\ lastRisk.tmean = N(22)
  /\ lastRisk.pd.RH2M = N(50)
  /\ lastRisk.hasWind
  /\ lastRisk.windMs = N(3)

(* C24: with precipitation 0 mm, temperature 22 C, humidity 50 % and wind  *)
(* 3 m/s the four centers are below 30 and labelled Green.                  *)
C24_BenignDayGreen ==
  BenignDay =>
    \A k \in Hazards :
      /\ riskResult.indices[k].center < N(30)
      /\ riskResult.indices[k].center >= 0
      /\ riskBandLabel(riskResult.indices[k].center) = "Green"

C24_Witness ==
  /\ BenignDay
  /\ riskResult.indices.heat.center = N(1)
  /\ riskResult.indices.cold.center = 0
  /\ riskResult.indices.wind.center = N(1)
  /\ riskResult.indices.wet.center = N(27)

(* C25: the date a share token encodes is the date the shared indices were *)
(* computed for, the meta.date of the risk result that was shared.         *)
C25_SharedDateIsResultDate ==
  (shareLink.kind = "link" /\ shareLink.metaDate \in {0, 1}) =>
    shareLink.payload.d = shareLink.metaDate

PredictEnds == cyclone.call.pc # "idle" /\ cyclone'.call.pc = "idle"

AllAttemptsFailed(log) ==
  /\ \A k \in 1..Len(log) : log[k].ev # "ok"
  /\ Len(SelectSeq(log, LAMBDA e : e.ev = "fail")) = 2 * Len(BaseUrls)

(* C27: callPredict ends with 'Prediction service unavailable' exactly     *)
(* when the POST and the GET on each of the three base URLs all failed.    *)
C27_UnavailableIffAllFailed ==
  [][PredictEnds =>
       (cyclone'.error = UnavailableMessage <=> AllAttemptsFailed(cyclone'.log))]_vars

PredictFailed ==
  /\ cyclone.call.pc = "idle"
  /\ cyclone.error \in {UnavailableMessage, NotIterableMessage}

(* C28: a result shown on the cyclone page is the row of the selected      *)
(* state and agrees with the colouring of that state, both being of the    *)
(* same response; after a failed predict no risk data is displayed.        *)
C28_ColouringAndResultAgree ==
  /\ cyclone.result.kind = "row" =>
       /\ cyclone.result.state = cyclone.selected
       /\ cyclone.riskByState[cyclone.result.state] = cyclone.result.risk_level
  /\ PredictFailed => (cyclone.result = NoRow /\ cyclone.riskByState = NoRisks)

(* C29: when neither OpenWeather current weather nor OneCall answered, the *)
(* temperature, humidity and wind of the snapshot are those of the POWER   *)
(* hourly entry nearest to the target time.                                 *)
C29_NearestPowerHour ==
  (Merged /\ lastMerge.oeSrc # "openweather" /\ ~lastMerge.oneCallLive) =>
    /\ lastMerge.current.tempC = RoundOrNull(lastMerge.first.tempC)
    /\ lastMerge.current.humidityPct = RoundOrNull(lastMerge.first.humidityPct)
    /\ lastMerge.current.windMs = lastMerge.first.windMs

ValidShare(p) ==
  /\ p.kind = "object"
  /\ p.d # Null
  /\ \A c \in {p.h, p.c, p.w, p.r} : c \in 0..N(100)

(* C30: a token whose payload lacks the date or one of the four centers,   *)
(* or holds a center that is no number in 0..100, leaves riskResult and    *)
(* the selected date as they were.                                          *)
C30_InvalidPayloadRejected ==
  [][(hash' # hash /\ ~ValidShare(Decode(hash'.text))) =>
       (riskResult' = riskResult /\ dateISO' = dateISO)]_vars

====
